---- MODULE Spec2Model ----
(***************************************************************************)
(* Grand-Convergence: the convergence/divergence kernels (CUDA, Metal, the *)
(* embedded shader and convergence_kernel_shared), their launch grid and   *)
(* element indexes, the GPU dispatcher's device lifecycle, the Theil-Sen   *)
(* regression of calculateRegression, the branch-pair enumeration, the     *)
(* tree's JSON form and the result emission of outputDataInJS and          *)
(* generateHTML.                                                           *)
(*                                                                         *)
(* Probabilities are modelled in exact arithmetic: matrix entries are      *)
(* naturals (probabilities scaled by a common denominator), regression     *)
(* values are fractions <<num, den>> with den >= 0, where den = 0 encodes  *)
(* the IEEE values +inf (<<1,0>>), -inf (<<-1,0>>) and NaN (<<0,0>>).      *)
(***************************************************************************)
EXTENDS Integers, Sequences, FiniteSets, TLC

VARIABLES
    \* ---- kernel (one work item on one site) ----
    conP,          \* flat posterior buffer: index -> entry
    kn,            \* the kernel parameter n
    pConvergent,   \* backend -> value written for (pair 0, site 0)
    pDivergent,    \* backend -> value written for (pair 0, site 0)
    kWritten,      \* the backends whose work item has written its output
    kArgs,         \* offsets, nodePairs, numPairs, numSites and the work item
    kOutIdx,       \* backend -> the output index its work item wrote at
    \* ---- dispatcher and device lifecycle ----
    compiled,      \* the backends compiled in (USE_CUDA, USE_METAL)
    backend,       \* the GPUBackend the host program passes to the dispatcher
    cuda,          \* the static variables of convergence_cuda.cu
    metal,         \* the static handles of convergence_metal.m
    device_name,   \* the caller's device_name buffer
    globalMem,     \* the caller's globalMem
    served,        \* largest workload run successfully since the last cleanup
    reported,      \* memory the last successful init reported, or -1
    lastCall,      \* what the last dispatcher call did and returned
    calls,         \* number of dispatcher calls made
    ready,         \* a gpu_init has returned 0 since the last gpu_cleanup
    \* ---- calculateRegression ----
    reg,           \* the arguments, locals and results of one call
    \* ---- one kernel launch ----
    launch,        \* the backend, numPairs, numSites and schedule of the launch
    progress,      \* work item -> loop iterations it has completed
    pos,           \* number of threads run so far by an ordered schedule
    writers,       \* output cell -> the work items that wrote it, in order
    \* ---- branch-pair enumeration ----
    enum,          \* the tree, the selection, the loop position and the triples
    \* ---- result emission ----
    sink,          \* the arguments of outputDataInJS and the call it has reached
    fs,            \* output path -> the file at that path
    \* ---- the indexes one kernel thread uses ----
    access,        \* the kernel, n, the loop position and the indexes used so far
    \* ---- the counters of calculateRegression on large inputs ----
    count,         \* numBranchPairs, the loop position, counter and index
    \* ---- the element index of a node's matrix at a site ----
    addr,          \* the operands, the position in the expression and its values
    \* ---- the tree and its JSON form ----
    tree           \* nodes[], tree.root, tree.nnode, the JSON text and its parse

kvars == <<conP, kn, pConvergent, pDivergent, kWritten, kArgs, kOutIdx>>

dvars == <<compiled, backend, cuda, metal, device_name, globalMem, served, reported,
           lastCall, calls, ready>>

rvars == <<reg>>

lvars == <<launch, progress, pos, writers>>

evars == <<enum>>

svars == <<sink, fs>>

avars == <<access>>

cvars == <<count>>

ivars == <<addr>>

tvars == <<tree>>

\* the host-side state outside the kernel, the dispatcher and the regression
hvars == <<enum, sink, fs, access, count, addr, tree>>

vars == <<conP, kn, pConvergent, pDivergent, kWritten, kArgs, kOutIdx,
          compiled, backend, cuda, metal, device_name, globalMem, served, reported,
          lastCall, calls, ready, reg, launch, progress, pos, writers,
          enum, sink, fs, access, count, addr, tree>>

----------------------------------------------------------------------------
(* Generic helpers.                                                        *)

\* e, with x evaluated first: a loop's accumulator is computed at each
\* iteration instead of being deferred to the end of the loop
Strict(x, e) == IF x = x THEN e ELSE e

----------------------------------------------------------------------------
(* The kernel.                                                             *)

\* sumcK[20], sumdK[20] and the literal loop count of the Metal kernel
KernelStates == 20

\* Spike values of the input family range over 1..MaxVal
MaxVal == 1

\* Rows and columns at which the input family places its spike
SpikeRows == {0, KernelStates - 1}
SpikeCols == {1, KernelStates - 1}

\* one matrix of the input family: a base value everywhere, an extra value
\* on the whole diagonal, and one spike at (r, c)
MatrixParams ==
    [base : {0, 1}, diag : {0, 3}, r : SpikeRows, c : SpikeCols, v : 1..MaxVal]

\* the matrix with every entry equal to one unit
Uniform == [base |-> 1, diag |-> 0, r |-> 0, c |-> 1, v |-> 0]

\* matrix entries are probabilities in units of 1/EntryScale
EntryScale == KernelStates

MkMatrix(p, n) ==
    [t \in 0..(n * n - 1) |->
        LET j == t \div n
            k == t % n
        IN  p.base + (IF j = k THEN p.diag ELSE 0)
                   + (IF j = p.r /\ k = p.c THEN p.v ELSE 0)]

\* conP_part1 for two nodes and one site: node 0's matrix, then node 1's
MkConP(p0, p1, n) ==
    LET M0 == MkMatrix(p0, n)
        M1 == MkMatrix(p1, n)
    IN  [i \in 0..(2 * n * n - 1) |-> IF i < n * n THEN M0[i] ELSE M1[i - n * n]]

\* offsets[] of the two nodes (numSites = 1)
kOffsets(n) == [v \in 0..1 |-> v * n * n]

\* nodePairs[] of the single pair: (inode, jnode, selected)
kNodePairs == <<0, 1, 0>>

\* the arguments of a launch and the (pair, site) of the work item followed
KernelArgs(offsets, nodePairs, numPairs, numSites, pairIdx, siteIdx) ==
    [offsets |-> offsets, nodePairs |-> nodePairs, numPairs |-> numPairs,
     numSites |-> numSites, pairIdx |-> pairIdx, siteIdx |-> siteIdx]

\* double sumcK[20] after the initialising loop of lines 78-80
ZeroSums == [k \in 0..(KernelStates - 1) |-> 0]

\* CUDA lines 88-92, the inner loop of row j from column k on: sumcK[k]
\* and sumdforJ accumulate P2[j*n + k]
RECURSIVE CudaSumRow(_, _, _, _, _, _)
CudaSumRow(buf, base2, n, j, k, acc) ==
    IF k >= n THEN acc
    ELSE LET val == buf[base2 + j * n + k]
             nxt == [sumcK |-> [acc.sumcK EXCEPT ![k] = @ + val],
                     sumdforJ |-> acc.sumdforJ + val]
         IN  Strict(nxt, CudaSumRow(buf, base2, n, j, k + 1, nxt))

\* a kernel that forgets lines 93-96 (the diagonal is never subtracted)
RECURSIVE CudaSumLoopKeepDiag(_, _, _, _, _)
CudaSumLoopKeepDiag(buf, base2, n, j, acc) ==
    IF j >= n THEN acc
    ELSE LET row == CudaSumRow(buf, base2, n, j, 0, acc)
         IN  Strict(row, CudaSumLoopKeepDiag(buf, base2, n, j + 1, row))

\* CUDA lines 86-97, from row j on: after the inner loop the diagonal entry
\* P2[j*n + j] is subtracted from sumcK[j] and from sumdforJ
RECURSIVE CudaSumLoop(_, _, _, _, _)
CudaSumLoop(buf, base2, n, j, acc) ==
    IF j >= n THEN acc
    ELSE LET row == CudaSumRow(buf, base2, n, j, 0, acc)
             diag == buf[base2 + j * n + j]
             nxt == [sumcK |-> [row.sumcK EXCEPT ![j] = @ - diag],
                     sumdforJ |-> row.sumdforJ - diag]
         IN  Strict(nxt, CudaSumLoop(buf, base2, n, j + 1, nxt))

\* lines 103-105 storing the total alone
CudaSumdKTotal(sumcK, sumdforJ, n) ==
    [k \in 0..(KernelStates - 1) |-> IF k < n THEN sumdforJ ELSE 0]

\* CUDA lines 103-105
CudaSumdK(sumcK, sumdforJ, n) ==
    [k \in 0..(KernelStates - 1) |-> IF k < n THEN sumdforJ - sumcK[k] ELSE 0]

\* lines 116-120 weighting a sum by the square of the entry of P1
RECURSIVE CudaProbRowSquare(_, _, _, _, _, _, _, _)
CudaProbRowSquare(buf, base1, n, j, k, sumcK, sumdK, acc) ==
    IF k >= n THEN acc
    ELSE LET p1_val == buf[base1 + j * n + k]
             nxt == [probC |-> acc.probC + sumcK[k] * p1_val * p1_val,
                     probD |-> acc.probD + sumdK[k] * p1_val * p1_val]
         IN  Strict(nxt, CudaProbRowSquare(buf, base1, n, j, k + 1, sumcK, sumdK, nxt))

\* CUDA lines 116-120, the inner loop of row j from column k on
RECURSIVE CudaProbRow(_, _, _, _, _, _, _, _)
CudaProbRow(buf, base1, n, j, k, sumcK, sumdK, acc) ==
    IF k >= n THEN acc
    ELSE LET p1_val == buf[base1 + j * n + k]
             nxt == [probC |-> acc.probC + sumcK[k] * p1_val,
                     probD |-> acc.probD + sumdK[k] * p1_val]
         IN  Strict(nxt, CudaProbRow(buf, base1, n, j, k + 1, sumcK, sumdK, nxt))

\* lines 114-125 subtracting the diagonal contributions twice
RECURSIVE CudaProbLoopDiagTwice(_, _, _, _, _, _, _)
CudaProbLoopDiagTwice(buf, base1, n, j, sumcK, sumdK, acc) ==
    IF j >= n THEN acc
    ELSE LET row == CudaProbRow(buf, base1, n, j, 0, sumcK, sumdK, acc)
             p1_diag == buf[base1 + j * n + j]
             nxt == [probC |-> row.probC - 2 * sumcK[j] * p1_diag,
                     probD |-> row.probD - 2 * sumdK[j] * p1_diag]
         IN  Strict(nxt, CudaProbLoopDiagTwice(buf, base1, n, j + 1, sumcK, sumdK, nxt))

\* CUDA lines 114-125, from row j on: after the inner loop the diagonal
\* contributions are subtracted
RECURSIVE CudaProbLoop(_, _, _, _, _, _, _)
CudaProbLoop(buf, base1, n, j, sumcK, sumdK, acc) ==
    IF j >= n THEN acc
    ELSE LET row == CudaProbRow(buf, base1, n, j, 0, sumcK, sumdK, acc)
             p1_diag == buf[base1 + j * n + j]
             nxt == [probC |-> row.probC - sumcK[j] * p1_diag,
                     probD |-> row.probD - sumdK[j] * p1_diag]
         IN  Strict(nxt, CudaProbLoop(buf, base1, n, j + 1, sumcK, sumdK, nxt))

\* CUDA convergence_kernel, lines 63-125 of one thread that passed the
\* guard: the (probC, probD) it goes on to write
CudaKernel(buf, offs, pairs, pairIdx, siteIdx, n) ==
    LET inode == pairs[pairIdx * 3 + 1]
        jnode == pairs[pairIdx * 3 + 2]
        base1 == offs[inode] + siteIdx * n * n
        base2 == offs[jnode] + siteIdx * n * n
        sums == CudaSumLoop(buf, base2, n, 0, [sumcK |-> ZeroSums, sumdforJ |-> 0])
        sumdK == CudaSumdK(sums.sumcK, sums.sumdforJ, n)
    IN  Strict(sumdK,
               CudaProbLoop(buf, base1, n, 0, sums.sumcK, sumdK,
                            [probC |-> 0, probD |-> 0]))

\* Metal lines 96-100, the inner loop of row j from column k on: sumcK[k]
\* and rowSum accumulate P2[j*n + k]; the loop runs to the literal 20
RECURSIVE MetalSumRow(_, _, _, _, _, _)
MetalSumRow(buf, base2, n, j, k, acc) ==
    IF k >= KernelStates THEN acc
    ELSE LET val == buf[base2 + j * n + k]
             nxt == [sumcK |-> [acc.sumcK EXCEPT ![k] = @ + val],
                     rowSum |-> acc.rowSum + val]
         IN  Strict(nxt, MetalSumRow(buf, base2, n, j, k + 1, nxt))

\* Metal lines 91-103, from row j on: rowSum starts at 0; after the inner
\* loop sumdforJ += rowSum - diag and sumcK[j] -= diag
RECURSIVE MetalSumLoop(_, _, _, _, _)
MetalSumLoop(buf, base2, n, j, acc) ==
    IF j >= KernelStates THEN acc
    ELSE LET diag == buf[base2 + j * n + j]
             row == MetalSumRow(buf, base2, n, j, 0,
                                [sumcK |-> acc.sumcK, rowSum |-> 0])
             nxt == [sumcK |-> [row.sumcK EXCEPT ![j] = @ - diag],
                     sumdforJ |-> acc.sumdforJ + (row.rowSum - diag)]
         IN  Strict(nxt, MetalSumLoop(buf, base2, n, j + 1, nxt))

\* Metal lines 107-109
MetalSumdK(sumcK, sumdforJ) ==
    [k \in 0..(KernelStates - 1) |-> sumdforJ - sumcK[k]]

\* Metal lines 120-124, the inner loop of row j from column k on
RECURSIVE MetalProbRow(_, _, _, _, _, _, _, _)
MetalProbRow(buf, base1, n, j, k, sumcK, sumdK, acc) ==
    IF k >= KernelStates THEN acc
    ELSE LET p1_val == buf[base1 + j * n + k]
             nxt == [probC |-> acc.probC + sumcK[k] * p1_val,
                     probD |-> acc.probD + sumdK[k] * p1_val]
         IN  Strict(nxt, MetalProbRow(buf, base1, n, j, k + 1, sumcK, sumdK, nxt))

\* Metal lines 116-128, from row j on
RECURSIVE MetalProbLoop(_, _, _, _, _, _, _)
MetalProbLoop(buf, base1, n, j, sumcK, sumdK, acc) ==
    IF j >= KernelStates THEN acc
    ELSE LET diag_p1 == buf[base1 + j * n + j]
             row == MetalProbRow(buf, base1, n, j, 0, sumcK, sumdK, acc)
             nxt == [probC |-> row.probC - sumcK[j] * diag_p1,
                     probD |-> row.probD - sumdK[j] * diag_p1]
         IN  Strict(nxt, MetalProbLoop(buf, base1, n, j + 1, sumcK, sumdK, nxt))

\* Metal convergence_kernel, lines 73-128 for one site of one thread: the
\* (probC, probD) it goes on to write
MetalKernelSite(buf, offs, pairs, pairIdx, siteIdx, n) ==
    LET inode == pairs[pairIdx * 3 + 1]
        jnode == pairs[pairIdx * 3 + 2]
        n2 == n * n
        base1 == offs[inode] + siteIdx * n2
        base2 == offs[jnode] + siteIdx * n2
        sums == MetalSumLoop(buf, base2, n, 0, [sumcK |-> ZeroSums, sumdforJ |-> 0])
        sumdK == MetalSumdK(sums.sumcK, sums.sumdforJ)
    IN  Strict(sumdK,
               MetalProbLoop(buf, base1, n, 0, sums.sumcK, sumdK,
                             [probC |-> 0, probD |-> 0]))

----------------------------------------------------------------------------
(* The dispatcher (convergence_gpu.c) and the two backends' host side.     *)

\* Buffer sizes of a run range over 1..MaxSize (in units of one buffer)
MaxSize == 2

\* Dispatcher calls per behaviour
MaxCalls == 3

\* The smaller of the two working-set sizes a device reports
SmallMem == 4

Backends == {"NONE", "CUDA", "METAL"}

NullPtr == [st |-> "null", size |-> 0]
FreedPtr == [st |-> "freed", size |-> 0]
LivePtr(sz) == [st |-> "live", size |-> sz]

CudaPointers ==
    {"d_conP_part1", "d_offsets", "d_nodePairs", "d_pConvergent", "d_pDivergent"}

\* convergence_cuda.cu lines 29-35.  A pointer is NULL, points to a live
\* allocation of some size, or still holds the address of a released one
CudaStatics ==
    [d_conP_part1 |-> NullPtr, d_offsets |-> NullPtr, d_nodePairs |-> NullPtr,
     d_pConvergent |-> NullPtr, d_pDivergent |-> NullPtr,
     allocated_conP_size |-> 0, allocated_output_size |-> 0]

\* convergence_metal.m lines 30-33
MetalStatics ==
    [metalDevice |-> "nil", commandQueue |-> "nil", pipelineState |-> "nil",
     metalLibrary |-> "nil"]

\* the record of a call: the operation, its return value; for an init,
\* whether it found no device to use and which out-arguments were non-NULL;
\* for a run, its sizes and whether they fit the largest workload served
\* before it; the device buffers the call created and released, whether it
\* launched the kernel, and the host output arrays it wrote
NoCall ==
    [fn |-> "none", ret |-> 0, noDevice |-> FALSE, hasName |-> FALSE,
     hasMem |-> FALSE, conPSize |-> 0, outSize |-> 0, fits |-> FALSE,
     created |-> {}, freed |-> {}, launched |-> FALSE, host |-> {},
     doubleFree |-> FALSE, useAfterFree |-> FALSE, nullUse |-> FALSE]

\* the frame of a call on entry: the statics d, whether the call has
\* returned (done, ret), and what it has done so far: the buffers it created
\* and released, whether it released an allocation a second time, handed a
\* released allocation or NULL to a copy or to the kernel
Frame(d) ==
    [d |-> d, done |-> FALSE, ret |-> 0, created |-> {}, freed |-> {},
     launched |-> FALSE, host |-> {},
     doubleFree |-> FALSE, useAfterFree |-> FALSE, nullUse |-> FALSE]

\* the regression part of a state in which calculateRegression is not called
RegIdle == reg = [pc |-> "idle"]

\* no enumeration under way
EnumIdle == enum = [pc |-> "idle"]

\* the files an earlier run left at the output paths, and no emission under way
SinkIdle ==
    /\ sink = [pc |-> "idle"]
    /\ fs = [path \in {"Data.js", "htmlFileName", "sheet", "siteSpecific",
                       "rateVsDiversity", "rateVsProbConvergence"} |->
                [prior |-> TRUE, content |-> <<>>]]

\* no kernel thread traced
AccessIdle == access = [phase |-> "idle"]

\* no large regression under way
CountIdle == count = [pc |-> "idle"]

\* the index part of a state in which no index is computed
AddrIdle == addr = [pc |-> "idle"]

\* the tree part of a state in which no tree is serialised
TreeIdle == tree = [pc |-> "idle"]

HostIdle ==
    EnumIdle /\ SinkIdle /\ AccessIdle /\ CountIdle /\ AddrIdle /\ TreeIdle

\* the launch part of a state in which no kernel is launched
LaunchIdle ==
    /\ launch = [backend |-> "none"]
    /\ progress = <<>>
    /\ pos = 0
    /\ writers = <<>>

\* the dispatcher part of a state in which no call has been made
DevIdle ==
    /\ compiled = {}
    /\ backend = "NONE"
    /\ cuda = CudaStatics
    /\ metal = MetalStatics
    /\ device_name = "unset"
    /\ globalMem = -1
    /\ served = [conP |-> 0, out |-> 0]
    /\ reported = -1
    /\ lastCall = NoCall
    /\ calls = 0
    /\ ready = FALSE

\* ---- CUDA runtime calls on the static pointers ----

\* cudaFree(p): the allocation is released, the variable keeps its value
cudaFree(r, p) ==
    IF r.done THEN r
    ELSE LET d == r.d
         IN  [r EXCEPT !.d[p] = IF d[p].st = "null" THEN NullPtr ELSE FreedPtr,
                       !.doubleFree = @ \/ d[p].st = "freed",
                       !.freed = @ \cup {p}]

\* CUDA_CHECK(cudaMalloc(&p, sz)): on failure the call returns -1 and the
\* runtime has either left p as it was or stored NULL in it
cudaMalloc(r, p, sz, fails, storesNull) ==
    IF r.done THEN r
    ELSE LET d == r.d
         IN  IF fails
             THEN [r EXCEPT !.done = TRUE, !.ret = -1,
                            !.d[p] = IF storesNull THEN NullPtr ELSE @]
             ELSE [r EXCEPT !.d[p] = LivePtr(sz), !.created = @ \cup {p}]

\* the device side of a copy or of the kernel dereferences p
cudaUse(r, ps) ==
    IF r.done THEN r
    ELSE [r EXCEPT !.useAfterFree = @ \/ \E p \in ps : r.d[p].st = "freed",
                   !.nullUse = @ \/ \E p \in ps : r.d[p].st = "null"]

\* CUDA_CHECK(call) of a call that allocates nothing
cudaCheck(r, fails) ==
    IF r.done \/ ~fails THEN r ELSE [r EXCEPT !.done = TRUE, !.ret = -1]

CudaFailPoints ==
    {"none", "malloc_conP", "malloc_conv", "malloc_div", "malloc_offsets",
     "malloc_pairs", "h2d_conP", "h2d_offsets", "h2d_pairs", "launch", "sync",
     "d2h_conv", "d2h_div"}

\* lines 197-201
cudaStageConP(r, conP_part1_size, failAt, storesNull) ==
    IF r.d.d_conP_part1.st = "null" \/ r.d.allocated_conP_size < conP_part1_size
    THEN LET f == IF r.d.d_conP_part1.st # "null"
                  THEN cudaFree(r, "d_conP_part1") ELSE r
             m == cudaMalloc(f, "d_conP_part1", conP_part1_size,
                             failAt = "malloc_conP", storesNull)
         IN  IF m.done THEN m
             ELSE [m EXCEPT !.d.allocated_conP_size = conP_part1_size]
    ELSE r

\* lines 203-209
cudaStageOutput(r, output_size, failAt, storesNull) ==
    IF r.done THEN r
    ELSE IF r.d.d_pConvergent.st = "null" \/ r.d.allocated_output_size < output_size
    THEN LET f1 == IF r.d.d_pConvergent.st # "null"
                   THEN cudaFree(r, "d_pConvergent") ELSE r
             f2 == IF f1.d.d_pDivergent.st # "null"
                   THEN cudaFree(f1, "d_pDivergent") ELSE f1
             m1 == cudaMalloc(f2, "d_pConvergent", output_size,
                              failAt = "malloc_conv", storesNull)
             m2 == cudaMalloc(m1, "d_pDivergent", output_size,
                              failAt = "malloc_div", storesNull)
         IN  IF m2.done THEN m2
             ELSE [m2 EXCEPT !.d.allocated_output_size = output_size]
    ELSE r

\* lines 212-215
cudaStageTemp(r, offsets_size, pairs_size, failAt, storesNull) ==
    IF r.done THEN r
    ELSE LET f1 == IF r.d.d_offsets.st # "null" THEN cudaFree(r, "d_offsets") ELSE r
             f2 == IF f1.d.d_nodePairs.st # "null"
                   THEN cudaFree(f1, "d_nodePairs") ELSE f1
             m1 == cudaMalloc(f2, "d_offsets", offsets_size,
                              failAt = "malloc_offsets", storesNull)
         IN  cudaMalloc(m1, "d_nodePairs", pairs_size,
                        failAt = "malloc_pairs", storesNull)

\* lines 218-220
cudaStageCopyIn(r, failAt) ==
    LET c1 == cudaCheck(cudaUse(r, {"d_conP_part1"}), failAt = "h2d_conP")
        c2 == cudaCheck(cudaUse(c1, {"d_offsets"}), failAt = "h2d_offsets")
    IN  cudaCheck(cudaUse(c2, {"d_nodePairs"}), failAt = "h2d_pairs")

\* lines 226-245: the launch, cudaGetLastError and cudaDeviceSynchronize
cudaStageLaunch(r, failAt) ==
    IF r.done THEN r
    ELSE LET l == [cudaUse(r, CudaPointers) EXCEPT !.launched = TRUE]
         IN  cudaCheck(cudaCheck(l, failAt = "launch"), failAt = "sync")

\* lines 248-251
cudaStageCopyOut(r, failAt) ==
    LET c1 == cudaCheck(cudaUse(r, {"d_pConvergent"}), failAt = "d2h_conv")
        w1 == IF c1.done THEN c1 ELSE [c1 EXCEPT !.host = @ \cup {"h_pConvergent"}]
        c2 == cudaCheck(cudaUse(w1, {"d_pDivergent"}), failAt = "d2h_div")
    IN  IF c2.done THEN c2
        ELSE [c2 EXCEPT !.host = @ \cup {"h_pDivergent"}, !.done = TRUE, !.ret = 0]

\* cuda_convergence, lines 180-252: the frame at its return.  The sizes of
\* the offsets and pairs buffers are one unit each
cuda_convergence(d, conP_part1_size, output_size, failAt, storesNull) ==
    LET r0 == Frame(d)
        r1 == cudaStageConP(r0, conP_part1_size, failAt, storesNull)
        r2 == cudaStageOutput(r1, output_size, failAt, storesNull)
        r3 == cudaStageTemp(r2, 1, 1, failAt, storesNull)
        r4 == cudaStageCopyIn(r3, failAt)
        r5 == cudaStageLaunch(r4, failAt)
    IN  cudaStageCopyOut(r5, failAt)

\* cuda_cleanup, lines 255-281
cuda_cleanup(d) ==
    LET r0 == Frame(d)
        FreeAndNull(r, p) ==
            IF r.d[p].st # "null"
            THEN [cudaFree(r, p) EXCEPT !.d[p] = NullPtr]
            ELSE r
        r1 == FreeAndNull(r0, "d_conP_part1")
        r2 == FreeAndNull(r1, "d_offsets")
        r3 == FreeAndNull(r2, "d_nodePairs")
        r4 == FreeAndNull(r3, "d_pConvergent")
        r5 == FreeAndNull(r4, "d_pDivergent")
    IN  [r5 EXCEPT !.d.allocated_conP_size = 0, !.d.allocated_output_size = 0]

\* what an init call hands back: its return value and the new contents of
\* the caller's device_name and globalMem (an argument may be NULL)
InitResult(ret, name, mem, hasName, hasMem) ==
    [ret |-> ret,
     device_name |-> IF hasName THEN name ELSE device_name,
     globalMem |-> IF hasMem THEN mem ELSE globalMem]

\* an init that finds no device and leaves the caller's buffers as they were
InitNoneSilent(hasName, hasMem) ==
    [ret |-> -1, device_name |-> device_name, globalMem |-> globalMem]

\* lines 149-153 of cuda_init, lines 146-151 of metal_init and lines 65-69
\* of gpu_init: no device
InitNone(hasName, hasMem) == InitResult(-1, "None", 0, hasName, hasMem)

CudaInitFailPoints == {"none", "device", "setDevice", "props"}

\* cuda_init, lines 145-177
cuda_init(failAt, mem, hasName, hasMem) ==
    IF failAt = "device" THEN InitNone(hasName, hasMem)
    ELSE IF failAt \in {"setDevice", "props"}
    THEN [ret |-> -1, device_name |-> device_name, globalMem |-> globalMem]
    ELSE InitResult(0, "cudaDevice0", mem, hasName, hasMem)

MetalInitFailPoints == {"none", "device", "queue", "compile", "function", "pipeline"}

\* what the search for convergence_metal.metallib gives (lines 170-202)
LibFiles == {"absent", "loads", "unloadable"}

\* metal_init, lines 141-242: the return value, the caller's buffers and
\* the static handles at its return
metal_init(m, failAt, libFile, mem, hasName, hasMem) ==
    LET m1 == [m EXCEPT !.metalDevice = IF failAt = "device" THEN "nil" ELSE "obj"]
        named == InitResult(-1, "metalDevice0", mem, hasName, hasMem)
        m2 == [m1 EXCEPT !.commandQueue = IF failAt = "queue" THEN "nil" ELSE "obj"]
        lib1 == IF libFile = "absent" THEN m.metalLibrary
                ELSE IF libFile = "loads" THEN "precompiled" ELSE "nil"
        lib2 == IF lib1 # "nil" THEN lib1
                ELSE IF failAt = "compile" THEN "nil" ELSE "embedded"
        m3 == [m2 EXCEPT !.metalLibrary = lib2]
        m4 == [m3 EXCEPT !.pipelineState = IF failAt = "pipeline" THEN "nil" ELSE "obj"]
    IN  IF m1.metalDevice = "nil" THEN [res |-> InitNone(hasName, hasMem), m |-> m1]
        ELSE IF m2.commandQueue = "nil" THEN [res |-> named, m |-> m2]
        ELSE IF m3.metalLibrary = "nil" THEN [res |-> named, m |-> m3]
        ELSE IF failAt = "function" THEN [res |-> named, m |-> m3]
        ELSE IF m4.pipelineState = "nil" THEN [res |-> named, m |-> m4]
        ELSE [res |-> [named EXCEPT !.ret = 0], m |-> m4]

MetalFailPoints == {"none", "malloc", "buffers", "command"}

MetalBuffers ==
    {"conP_buf", "offsets_buf", "pairs_buf", "convergent_buf", "divergent_buf",
     "params_buf"}

\* metal_convergence, lines 245-384: the frame at its return.  Every buffer
\* is a local of the call and is released when it returns
metal_convergence(m, conP_part1_size, output_size, failAt) ==
    LET r0 == [Frame(m) EXCEPT !.done = TRUE, !.ret = -1]
    IN  IF m.metalDevice = "nil" \/ m.pipelineState = "nil" \/ m.commandQueue = "nil"
        THEN r0
        ELSE IF failAt = "malloc" THEN r0
        ELSE IF failAt = "buffers"
        THEN [r0 EXCEPT !.created = MetalBuffers \ {"divergent_buf"},
                        !.freed = MetalBuffers \ {"divergent_buf"}]
        ELSE IF failAt = "command"
        THEN [r0 EXCEPT !.created = MetalBuffers, !.freed = MetalBuffers,
                        !.launched = TRUE]
        ELSE [r0 EXCEPT !.created = MetalBuffers, !.freed = MetalBuffers,
                        !.launched = TRUE, !.ret = 0,
                        !.host = {"h_pConvergent", "h_pDivergent"}]

\* metal_cleanup, lines 387-395
metal_cleanup(m) ==
    [m EXCEPT !.pipelineState = "nil", !.metalLibrary = "nil",
              !.commandQueue = "nil", !.metalDevice = "nil"]

\* the case labels of a switch in convergence_gpu.c that are compiled in
Dispatch(b) == IF b \in compiled THEN b ELSE "NONE"

\* ---- the dispatcher's operations ----

\* gpu_init, lines 53-71
gpu_init(failAt, libFile, mem, hasName, hasMem) ==
    /\ calls < MaxCalls
    /\ calls' = calls + 1
    /\ LET to == Dispatch(backend)
           mi == metal_init(metal, failAt, libFile, mem, hasName, hasMem)
           res == IF to = "CUDA" THEN cuda_init(failAt, mem, hasName, hasMem)
                  ELSE IF to = "METAL" THEN mi.res
                  ELSE InitNone(hasName, hasMem)
       IN  /\ metal' = IF to = "METAL" THEN mi.m ELSE metal
           /\ device_name' = res.device_name
           /\ globalMem' = res.globalMem
           /\ reported' = IF res.ret = 0 THEN mem ELSE reported
           /\ ready' = (ready \/ res.ret = 0)
           /\ lastCall' = [NoCall EXCEPT !.fn = "init", !.ret = res.ret,
                                         !.noDevice = to = "NONE" \/ failAt = "device",
                                         !.hasName = hasName, !.hasMem = hasMem]
    /\ UNCHANGED <<compiled, backend, cuda, served>>

Max(a, b) == IF a >= b THEN a ELSE b

\* gpu_convergence, lines 74-115
gpu_convergence(conP_part1_size, output_size, failAt, storesNull) ==
    /\ calls < MaxCalls
    /\ calls' = calls + 1
    /\ LET to == Dispatch(backend)
           rc == cuda_convergence(cuda, conP_part1_size, output_size, failAt, storesNull)
           rm == metal_convergence(metal, conP_part1_size, output_size, failAt)
           r == IF to = "CUDA" THEN rc
                ELSE IF to = "METAL" THEN rm
                ELSE [Frame(cuda) EXCEPT !.done = TRUE, !.ret = -1]
       IN  /\ cuda' = IF to = "CUDA" THEN rc.d ELSE cuda
           /\ served' = IF r.ret = 0
                        THEN [conP |-> Max(served.conP, conP_part1_size),
                              out |-> Max(served.out, output_size)]
                        ELSE served
           /\ lastCall' = [NoCall EXCEPT
                              !.fn = "run", !.ret = r.ret,
                              !.conPSize = conP_part1_size, !.outSize = output_size,
                              !.fits = /\ conP_part1_size <= served.conP
                                       /\ output_size <= served.out,
                              !.created = r.created, !.freed = r.freed,
                              !.launched = r.launched, !.host = r.host,
                              !.doubleFree = r.doubleFree,
                              !.useAfterFree = r.useAfterFree,
                              !.nullUse = r.nullUse]
    /\ UNCHANGED <<compiled, backend, metal, device_name, globalMem, reported, ready>>

\* gpu_cleanup, lines 118-136
gpu_cleanup ==
    /\ calls < MaxCalls
    /\ calls' = calls + 1
    /\ LET to == Dispatch(backend)
           rc == cuda_cleanup(cuda)
       IN  /\ cuda' = IF to = "CUDA" THEN rc.d ELSE cuda
           /\ metal' = IF to = "METAL" THEN metal_cleanup(metal) ELSE metal
           /\ lastCall' = [NoCall EXCEPT !.fn = "cleanup",
                                         !.freed = IF to = "CUDA" THEN rc.freed ELSE {},
                                         !.doubleFree = to = "CUDA" /\ rc.doubleFree]
    /\ served' = [conP |-> 0, out |-> 0]
    /\ ready' = FALSE
    /\ UNCHANGED <<compiled, backend, device_name, globalMem, reported>>

\* the kernel part of a state of the dispatcher's specification
KernelIdle ==
    /\ conP = <<>>
    /\ kn = KernelStates
    /\ pConvergent = [b \in {"cuda", "metal"} |-> 0]
    /\ pDivergent = [b \in {"cuda", "metal"} |-> 0]
    /\ kWritten = {}
    /\ kArgs = KernelArgs(<<>>, <<>>, 0, 0, 0, 0)
    /\ kOutIdx = <<>>

DevInit ==
    /\ HostIdle
    /\ KernelIdle
    /\ RegIdle
    /\ LaunchIdle
    /\ compiled \in SUBSET {"CUDA", "METAL"}
    /\ backend \in Backends
    /\ cuda = CudaStatics
    /\ metal = MetalStatics
    /\ device_name = "unset"
    /\ globalMem = -1
    /\ served = [conP |-> 0, out |-> 0]
    /\ reported = -1
    /\ lastCall = NoCall
    /\ calls = 0
    /\ ready = FALSE

\* the failure the environment can inject into an init call, and what the
\* search for the precompiled library finds
InitEnvs ==
    IF Dispatch(backend) = "CUDA" THEN CudaInitFailPoints \X {"absent"}
    ELSE IF Dispatch(backend) = "METAL" THEN MetalInitFailPoints \X LibFiles
    ELSE {<<"none", "absent">>}

\* the failure the environment can inject into a run, and whether a failed
\* cudaMalloc stores NULL
RunEnvs ==
    IF Dispatch(backend) = "CUDA" THEN CudaFailPoints \X BOOLEAN
    ELSE IF Dispatch(backend) = "METAL" THEN MetalFailPoints \X {FALSE}
    ELSE {<<"none", FALSE>>}

GpuInit ==
    /\ \E env \in InitEnvs, mem \in {SmallMem, 4 * SmallMem},
          hasName \in BOOLEAN, hasMem \in BOOLEAN :
          gpu_init(env[1], env[2], mem, hasName, hasMem)
    /\ UNCHANGED <<kvars, rvars, lvars, hvars>>

GpuConvergence ==
    /\ \E conP_part1_size \in 1..MaxSize, output_size \in 1..MaxSize,
          env \in RunEnvs :
          gpu_convergence(conP_part1_size, output_size, env[1], env[2])
    /\ UNCHANGED <<kvars, rvars, lvars, hvars>>

GpuCleanup ==
    /\ gpu_cleanup
    /\ UNCHANGED <<kvars, rvars, lvars, hvars>>

DevNext == GpuInit \/ GpuConvergence \/ GpuCleanup

SpecDev == DevInit /\ [][DevNext]_vars

\* init and cleanup calls alone: a run call reads and writes none of the
\* variables that gpu_init reads or writes
InitNext == GpuInit \/ GpuCleanup

SpecInit == DevInit /\ [][InitNext]_vars

KernelInit ==
    /\ kn = KernelStates
    /\ \E p0 \in MatrixParams \cup {Uniform}, p1 \in MatrixParams \cup {Uniform} :
          conP = MkConP(p0, p1, kn)
    /\ pConvergent = [b \in {"cuda", "metal"} |-> 0]
    /\ pDivergent = [b \in {"cuda", "metal"} |-> 0]
    /\ kWritten = {}
    /\ kArgs = KernelArgs(kOffsets(kn), kNodePairs, 1, 1, 0, 0)
    /\ kOutIdx = [b \in {"cuda", "metal"} |-> -1]
    /\ DevIdle
    /\ RegIdle
    /\ LaunchIdle
    /\ HostIdle

\* the CUDA thread of the work item runs to its two writes
RunCudaKernel ==
    /\ "cuda" \notin kWritten
    /\ kWritten' = kWritten \cup {"cuda"}
    /\ LET res == CudaKernel(conP, kArgs.offsets, kArgs.nodePairs, kArgs.pairIdx,
                              kArgs.siteIdx, kn)
           \* line 128
           outIdx == kArgs.pairIdx * kArgs.numSites + kArgs.siteIdx
       IN  /\ pConvergent' = [pConvergent EXCEPT !["cuda"] = res.probC]
           /\ pDivergent' = [pDivergent EXCEPT !["cuda"] = res.probD]
           /\ kOutIdx' = [kOutIdx EXCEPT !["cuda"] = outIdx]
    /\ UNCHANGED <<conP, kn, kArgs>>
    /\ UNCHANGED <<dvars, rvars, lvars, hvars>>

\* the Metal thread of the work item processes its site
RunMetalKernel ==
    /\ "metal" \notin kWritten
    /\ kWritten' = kWritten \cup {"metal"}
    /\ LET res == MetalKernelSite(conP, kArgs.offsets, kArgs.nodePairs, kArgs.pairIdx,
                                   kArgs.siteIdx, kn)
           \* line 131
           outIdx == kArgs.pairIdx * kArgs.numSites + kArgs.siteIdx
       IN  /\ pConvergent' = [pConvergent EXCEPT !["metal"] = res.probC]
           /\ pDivergent' = [pDivergent EXCEPT !["metal"] = res.probD]
           /\ kOutIdx' = [kOutIdx EXCEPT !["metal"] = outIdx]
    /\ UNCHANGED <<conP, kn, kArgs>>
    /\ UNCHANGED <<dvars, rvars, lvars, hvars>>

KernelNext == RunCudaKernel \/ RunMetalKernel

SpecKernel == KernelInit /\ [][KernelNext]_vars

\* ---- the reduction of the specification, as reference ----
\* the entries P[j,k] of a node's matrix at site 0
RefEntry(buf, node, n, j, k) == buf[node * n * n + j * n + k]

\* sum over j # k of P[j,k], for j = 0..m-1
RECURSIVE RefColSum(_, _, _, _, _)
RefColSum(buf, node, n, k, m) ==
    IF m = 0 THEN 0
    ELSE (IF m - 1 # k THEN RefEntry(buf, node, n, m - 1, k) ELSE 0)
         + RefColSum(buf, node, n, k, m - 1)

\* sum over k = 0..m-1 of (sum over j # k of P1[j,k]) * sumcK[k], which is
\* the sum over all j # k of P1[j,k] * sumcK[k] grouped by column
RECURSIVE RefConv(_, _, _)
RefConv(buf, n, m) ==
    IF m = 0 THEN 0
    ELSE RefColSum(buf, 0, n, m - 1, n) * RefColSum(buf, 1, n, m - 1, n)
         + RefConv(buf, n, m - 1)

\* total = sum over all j # k of P2[j,k]
RECURSIVE RefTotal(_, _, _)
RefTotal(buf, n, m) ==
    IF m = 0 THEN 0
    ELSE RefColSum(buf, 1, n, m - 1, n) + RefTotal(buf, n, m - 1)

\* sum over all j # k of P1[j,k] * (total - sumcK[k]), grouped by column
RECURSIVE RefDiv(_, _, _, _)
RefDiv(buf, n, total, m) ==
    IF m = 0 THEN 0
    ELSE RefColSum(buf, 0, n, m - 1, n) * (total - RefColSum(buf, 1, n, m - 1, n))
         + RefDiv(buf, n, total, m - 1)

RefProbC(buf, n) == RefConv(buf, n, n)

RefProbD(buf, n) == RefDiv(buf, n, RefTotal(buf, n, n), n)

\* C1: for n = 20 the value each kernel writes for the (pair, site) is
\* probC = sum over j # k of P1[j,k] * sumcK[k] and
\* probD = sum over j # k of P1[j,k] * sumdK[k], with sumcK[k] the
\* off-diagonal column sum of P2 and sumdK[k] = total - sumcK[k].
C1_KernelMatchesReduction ==
    kn = 20 =>
        \A b \in {"cuda", "metal"} :
            b \in kWritten =>
                /\ pConvergent[b] = RefProbC(conP, kn)
                /\ pDivergent[b] = RefProbD(conP, kn)

C1_Witness ==
    /\ kn = 20
    /\ kWritten = {"cuda", "metal"}
    /\ pConvergent["cuda"] > 0
    /\ pDivergent["cuda"] > pConvergent["cuda"]

\* the sum of the first m entries of row j of a node's matrix at site 0
RECURSIVE EntryRowSum(_, _, _, _, _)
EntryRowSum(buf, node, n, j, m) ==
    IF m = 0 THEN 0
    ELSE RefEntry(buf, node, n, j, m - 1) + EntryRowSum(buf, node, n, j, m - 1)

\* the sum of the entries of the first m rows
RECURSIVE EntrySum(_, _, _, _)
EntrySum(buf, node, n, m) ==
    IF m = 0 THEN 0
    ELSE EntryRowSum(buf, node, n, m - 1, n) + EntrySum(buf, node, n, m - 1)

UniformInput == kn = 20 /\ \A i \in DOMAIN conP : conP[i] = 1

\* the intermediate sums of the two kernels on the current input
CudaSums == CudaSumLoop(conP, kOffsets(kn)[1], kn, 0, [sumcK |-> ZeroSums, sumdforJ |-> 0])
MetalSums == MetalSumLoop(conP, kOffsets(kn)[1], kn, 0, [sumcK |-> ZeroSums, sumdforJ |-> 0])

\* sumcK[k] = 0.95, total = 19 and sumdK[k] = 18.05 in both kernels
\* (in units of 1/EntryScale)
UniformSums ==
    /\ \A k \in 0..(kn - 1) :
          /\ CudaSums.sumcK[k] = 19 /\ MetalSums.sumcK[k] = 19
          /\ CudaSumdK(CudaSums.sumcK, CudaSums.sumdforJ, kn)[k] = 361
          /\ MetalSumdK(MetalSums.sumcK, MetalSums.sumdforJ)[k] = 361
    /\ CudaSums.sumdforJ = 380 /\ MetalSums.sumdforJ = 380

\* C17 as stated: with n = 20, one site and every entry 1/n, sumcK[k] = 0.95,
\* total = 19, sumdK[k] = 18.05, probC = 361 and probD = 6859
C17_UniformClosedForm ==
    (UniformInput /\ kWritten # {}) =>
        /\ UniformSums
        /\ \A b \in kWritten :
              /\ pConvergent[b] = 361 * EntryScale * EntryScale
              /\ pDivergent[b] = 6859 * EntryScale * EntryScale

\* C17 amended: with n = 20, one site and every entry 1/n, sumcK[k] = 0.95,
\* total = 19, sumdK[k] = 18.05, probC = 18.05 (7220/400) and
\* probD = 342.95 (137180/400)
C17_UniformValues ==
    (UniformInput /\ kWritten # {}) =>
        /\ UniformSums
        /\ \A b \in kWritten :
              /\ pConvergent[b] = 7220
              /\ pDivergent[b] = 137180

\* both kernels have written their outputs for the uniform input
C17_Witness == UniformInput /\ kWritten = {"cuda", "metal"}

----------------------------------------------------------------------------
(* Device memory and lifecycle, checked under SpecDev (C8: SpecInit).      *)

\* the capacity recorded for a static device pointer; none is recorded for
\* the offsets and pairs buffers
Capacity(p) ==
    IF p = "d_conP_part1" THEN cuda.allocated_conP_size
    ELSE IF p \in {"d_pConvergent", "d_pDivergent"} THEN cuda.allocated_output_size
    ELSE 0

\* C2: in every state reached by run calls, failed ones included, each
\* non-NULL static device pointer designates a live allocation at least as
\* large as the recorded capacity, and no run hands a released buffer to a
\* copy or to the kernel or releases it a second time.
C2_DevicePointersLive ==
    /\ \A p \in CudaPointers :
          cuda[p].st # "null" => cuda[p].st = "live" /\ cuda[p].size >= Capacity(p)
    /\ lastCall.fn = "run" => ~lastCall.useAfterFree /\ ~lastCall.doubleFree

\* C3: once gpu_cleanup has returned, every resource of the backend is
\* released: for CUDA the five static pointers are NULL, both capacities are
\* 0 and no allocation was released a second time; for Metal the device,
\* queue, library and pipeline handles are nil.
C3_CleanupReleasesOnce ==
    lastCall.fn = "cleanup" =>
        /\ Dispatch(backend) = "CUDA" =>
              /\ \A p \in CudaPointers : cuda[p] = NullPtr
              /\ cuda.allocated_conP_size = 0
              /\ cuda.allocated_output_size = 0
              /\ ~lastCall.doubleFree
        /\ Dispatch(backend) = "METAL" => metal = MetalStatics

\* C8: every init call returns 0 or -1 to its caller, and when the backend
\* is NONE, is not compiled in, or has no device, it returns -1 and stores
\* "None" and 0 through the device_name and globalMem arguments it was given.
C8_InitReturnsToCaller ==
    lastCall.fn = "init" =>
        /\ lastCall.ret \in {0, -1}
        /\ lastCall.noDevice =>
              /\ lastCall.ret = -1
              /\ lastCall.hasName => device_name = "None"
              /\ lastCall.hasMem => globalMem = 0

\* an init finds no device after an earlier init had reported one, and
\* overwrites the name and the memory the earlier init stored
C8_Witness ==
    /\ lastCall.fn = "init"
    /\ lastCall.noDevice /\ lastCall.hasName /\ lastCall.hasMem
    /\ Dispatch(backend) # "NONE"
    /\ reported > 0
    /\ device_name = "None" /\ globalMem = 0

\* the combined size of the conP, offsets, nodePairs and two output buffers
\* of the last run
CombinedSize == lastCall.conPSize + 1 + 1 + 2 * lastCall.outSize

\* C9: a run whose combined buffer size exceeds the budget the device
\* reported at init returns -1 without creating a device buffer or launching
\* the kernel.
C9_OverBudgetRunRefused ==
    (lastCall.fn = "run" /\ reported >= 0 /\ CombinedSize > reported) =>
        /\ lastCall.ret = -1
        /\ lastCall.created = {}
        /\ ~lastCall.launched

\* the device buffers that hold conP and the two outputs, on either backend
ResidentBuffers ==
    {"d_conP_part1", "d_pConvergent", "d_pDivergent",
     "conP_buf", "convergent_buf", "divergent_buf"}

\* C10: a run whose conP and output sizes are no larger than those of a run
\* already served since init keeps the conP buffer and both output buffers:
\* it neither releases nor re-creates any of them.
C10_BuffersStayResident ==
    (lastCall.fn = "run" /\ lastCall.fits) =>
        /\ lastCall.created \cap ResidentBuffers = {}
        /\ lastCall.freed \cap ResidentBuffers = {}

----------------------------------------------------------------------------
(* calculateRegression (JDKLabUtility.c).  A double is an exact fraction   *)
(* <<num, den>> in lowest terms with den > 0, or <<1,0>> (+inf),           *)
(* <<-1,0>> (-inf), <<0,0>> (NaN).                                         *)

\* numBranchPairs ranges over 1..MaxN
MaxN == 3

Abs(a) == IF a < 0 THEN -a ELSE a

Sign(a) == IF a > 0 THEN 1 ELSE IF a < 0 THEN -1 ELSE 0

RECURSIVE Gcd(_, _)
Gcd(a, b) == IF b = 0 THEN a ELSE Gcd(b, a % b)

\* the double n/d
Frac(n, d) ==
    IF d = 0 THEN <<Sign(n), 0>>
    ELSE LET g == Gcd(Abs(n), Abs(d))
         IN  <<(Sign(d) * n) \div g, Abs(d) \div g>>

NaN == <<0, 0>>

Num(i) == <<i, 1>>

\* the values the points' coordinates are drawn from
Coordinates == {Num(0), Num(1), Num(2)}

IsNaN(a) == a = NaN

IsInf(a) == a[2] = 0 /\ a[1] # 0

\* a + b
Add(a, b) ==
    IF IsNaN(a) \/ IsNaN(b) THEN NaN
    ELSE IF IsInf(a) /\ IsInf(b) THEN (IF a = b THEN a ELSE NaN)
    ELSE IF IsInf(a) THEN a
    ELSE IF IsInf(b) THEN b
    ELSE Frac(a[1] * b[2] + b[1] * a[2], a[2] * b[2])

\* a - b
Sub(a, b) == Add(a, <<-b[1], b[2]>>)

\* a * b
Mul(a, b) ==
    IF IsNaN(a) \/ IsNaN(b) THEN NaN
    ELSE IF IsInf(a) \/ IsInf(b)
    THEN (IF a[1] = 0 \/ b[1] = 0 THEN NaN ELSE <<Sign(a[1]) * Sign(b[1]), 0>>)
    ELSE Frac(a[1] * b[1], a[2] * b[2])

\* a / b for finite a and b; a zero divisor is +0
Div(a, b) == Frac(a[1] * b[2], a[2] * b[1])

\* a < b
Lt(a, b) ==
    /\ ~IsNaN(a)
    /\ ~IsNaN(b)
    /\ IF a[2] = 0 /\ b[2] = 0 THEN a[1] < b[1] ELSE a[1] * b[2] < b[1] * a[2]

\* a == b
EqD(a, b) == ~IsNaN(a) /\ ~IsNaN(b) /\ a = b

\* a >= b
Ge(a, b) == Lt(b, a) \/ EqD(a, b)

\* cmpfunc, lines 146-151
cmpfunc(xx, yy) == IF Lt(xx, yy) THEN -1 ELSE IF Lt(yy, xx) THEN 1 ELSE 0

\* the C array a at index i
At(a, i) == a[i + 1]

\* lines 162-166 and 176-180: the slope of the pair (i, j)
PairSlope(x, y, i, j) == Div(Sub(At(y, i), At(y, j)), Sub(At(x, i), At(x, j)))

\* lines 164-167 and 178-181: the pair (i, j) contributes its slope
Collected(x, y, i, j) ==
    LET xdelta == Sub(At(x, i), At(x, j))
        ydelta == Sub(At(y, i), At(y, j))
        slope == Div(ydelta, xdelta)
    IN  /\ ~(EqD(xdelta, Num(0)) /\ EqD(ydelta, Num(0)))
        /\ ~EqD(slope, Num(-1))
        /\ ~EqD(slope, Num(0))

\* pass 1, lines 160-169: counter after the loops, from (i, j)
RECURSIVE Pass1(_, _, _, _, _, _)
Pass1(x, y, N, i, j, counter) ==
    IF i >= N THEN counter
    ELSE IF j >= N THEN Pass1(x, y, N, i + 1, i + 2, counter)
    ELSE Pass1(x, y, N, i, j + 1,
               IF Collected(x, y, i, j) THEN counter + 1 ELSE counter)

\* pass 2, lines 173-185: vector[0..index) after the loops, from (i, j)
RECURSIVE Pass2(_, _, _, _, _, _)
Pass2(x, y, N, i, j, vector) ==
    IF i >= N THEN vector
    ELSE IF j >= N THEN Pass2(x, y, N, i + 1, i + 2, vector)
    ELSE Pass2(x, y, N, i, j + 1,
               IF Collected(x, y, i, j)
               THEN Append(vector, PairSlope(x, y, i, j)) ELSE vector)

RECURSIVE Insert(_, _)
Insert(s, v) ==
    IF s = <<>> THEN <<v >>
    ELSE IF cmpfunc(v, Head(s)) < 0 THEN <<v>> \o s
    ELSE <<Head(s)>> \o Insert(Tail(s), v)

\* the array in ascending order of cmpfunc
RECURSIVE SortAsc(_)
SortAsc(s) == IF s = <<>> THEN <<>> ELSE Insert(SortAsc(Tail(s)), Head(s))

Arrangements(s) ==
    LET n == Len(s)
        P == {p \in [1..n -> 1..n] : \A a, c \in 1..n : p[a] = p[c] => a = c}
    IN  {[q \in 1..n |-> s[p[q]]] : p \in P}

\* qsort(s, Len(s), sizeof(double), cmpfunc): the arrays it can leave.  With
\* a NaN among the elements cmpfunc orders nothing against it, and the
\* arrangement is whatever the library's algorithm produces
qsort(s) ==
    IF \E q \in 1..Len(s) : IsNaN(s[q]) THEN Arrangements(s) ELSE {SortAsc(s)}

\* the loop of lines 188-193 from index i, that fell through without
\* subtracting one
CutoffLoopOffByOne(vector, counter, i, cutoff) ==
    IF \E q \in i..(counter - 1) : Ge(At(vector, q), Num(-1))
    THEN CHOOSE q \in i..(counter - 1) :
            /\ Ge(At(vector, q), Num(-1))
            /\ \A r \in i..(q - 1) : ~Ge(At(vector, r), Num(-1))
    ELSE cutoff

\* lines 188-193: cutoff after the loop, from index i
RECURSIVE CutoffLoop(_, _, _, _)
CutoffLoop(vector, counter, i, cutoff) ==
    IF i >= counter THEN cutoff
    ELSE IF Ge(At(vector, i), Num(-1)) THEN i - 1
    ELSE CutoffLoop(vector, counter, i + 1, cutoff)

\* lines 195-198: the indexes of vector that are read
SlopeReads(counter, cutoff) ==
    IF counter % 2 = 0
    THEN <<counter \div 2 + cutoff, counter \div 2 + cutoff + 1>>
    ELSE <<(counter + 1) \div 2 + cutoff>>

\* what a read out of the bounds of an allocation can yield
GarbageValues == {Num(0), Num(-3)}

\* vector[i], where a read outside vector[0..counter) yields g
ReadVector(vector, counter, i, g) ==
    IF 0 <= i /\ i < counter THEN At(vector, i) ELSE g

\* lines 195-198: *k from the values read
SlopeK(vals) ==
    IF Len(vals) = 2 THEN Mul(<<1, 2>>, Add(vals[1], vals[2])) ELSE vals[1]

\* lines 208-211 taking the upper middle element alone
InterceptBUpper(temp, N) == At(temp, N \div 2)

\* lines 208-211: *b from the sorted temp
InterceptB(temp, N) ==
    IF N % 2 = 0
    THEN Mul(Add(At(temp, N \div 2), At(temp, N \div 2 - 1)), <<1, 2>>)
    ELSE At(temp, N \div 2)

\* lines 202-204 adding the fitted term
TempOfSum(x, y, N, k) == [q \in 1..N |-> Add(y[q], Mul(k, x[q]))]

\* lines 202-204: temp before it is sorted
TempOf(x, y, N, k) == [q \in 1..N |-> Sub(y[q], Mul(k, x[q]))]

RegInputs ==
    UNION {[N : {N}, x : [1..N -> Coordinates], y : [1..N -> Coordinates]] :
              N \in 1..MaxN}

\* five points, four of them on the line y = x
FivePoints ==
    [N |-> 5, x |-> <<Num(1), Num(2), Num(3), Num(4), Num(5)>>,
     y |-> <<Num(1), Num(2), Num(4), Num(4), Num(5)>>]

\* a call of calculateRegression(pDivergent = x, pAllConvergent = y,
\* numBranchPairs = N, &k, &b) on entry; error is what the call reports to
\* its caller besides *k and *b
RegStart(in) ==
    [pc |-> "start", N |-> in.N, x |-> in.x, y |-> in.y, counter |-> 0,
     vector |-> <<>>, cutoff |-> 0, reads |-> <<>>, k |-> NaN, t |-> <<>>,
     temp |-> <<>>, b |-> NaN, error |-> "none"]

RegInit ==
    /\ HostIdle
    /\ KernelIdle
    /\ DevIdle
    /\ LaunchIdle
    /\ reg \in {RegStart(in) : in \in RegInputs \cup {FivePoints}}

\* lines 155-199: the two passes, the sort, the cutoff loop and *k.  A read
\* outside vector yields any value, or ends the program
RegSlope ==
    /\ reg.pc = "start"
    /\ LET counter == Pass1(reg.x, reg.y, reg.N, 0, 1, 0)
           filled == Pass2(reg.x, reg.y, reg.N, 0, 1, <<>>)
       IN  \E vector \in qsort(filled), g1 \in GarbageValues, g2 \in GarbageValues,
              crash \in BOOLEAN :
              LET cutoff == CutoffLoop(vector, counter, 0, 0)
                  reads == SlopeReads(counter, cutoff)
                  inside == \A q \in 1..Len(reads) : 0 <= reads[q] /\ reads[q] < counter
                  vals == [q \in 1..Len(reads) |->
                             ReadVector(vector, counter, reads[q],
                                        IF q = 1 THEN g1 ELSE g2)]
                  r == [reg EXCEPT !.counter = counter, !.vector = vector,
                                   !.cutoff = cutoff, !.reads = reads]
              IN  /\ crash => ~inside
                  /\ reg' = IF crash THEN [r EXCEPT !.pc = "crashed"]
                            ELSE [r EXCEPT !.pc = "slope", !.k = SlopeK(vals)]
    /\ UNCHANGED <<kvars, dvars, lvars, hvars>>

\* lines 200-211: temp, its sort and *b
RegIntercept ==
    /\ reg.pc = "slope"
    /\ LET t == TempOf(reg.x, reg.y, reg.N, reg.k)
       IN  \E temp \in qsort(t) :
              reg' = [reg EXCEPT !.pc = "done", !.t = t, !.temp = temp,
                                 !.b = InterceptB(temp, reg.N)]
    /\ UNCHANGED <<kvars, dvars, lvars, hvars>>

RegNext == RegSlope \/ RegIntercept

SpecReg == RegInit /\ [][RegNext]_vars

----------------------------------------------------------------------------
(* The regression, checked under SpecReg.                                  *)

RegReturnedK == reg.pc \in {"slope", "done"}

RegPastSlope == reg.pc \in {"slope", "done", "crashed"}

\* C4: when no pairwise slope survives the filtering, the call reports
\* NumericDegeneracy and reads no element of the empty slope vector.
C4_NoSlopeIsDegeneracy ==
    (RegPastSlope /\ reg.counter = 0) =>
        /\ reg.error = "NumericDegeneracy"
        /\ reg.reads = <<>>

\* the pairs i < j of sample points
RefPairs == {p \in (1..reg.N) \X (1..reg.N) : p[1] < p[2]}

\* m = (y[i] - y[j]) / (x[i] - x[j]); the coordinates are whole numbers
RefSlope(p) ==
    Frac(reg.y[p[1]][1] - reg.y[p[2]][1], reg.x[p[1]][1] - reg.x[p[2]][1])

\* the pairs whose slope is collected: not both differences zero, m # -1,
\* m # 0
RefCollected ==
    {p \in RefPairs : RefSlope(p) \notin {NaN, Num(-1), Num(0)}}

\* s is in ascending order
Ascending(s) == \A p, q \in 1..Len(s) : p < q => ~Lt(s[q], s[p])

\* s holds the elements of t, each as often as t does
SameElements(s, t) ==
    /\ Len(s) = Len(t)
    /\ \A p \in 1..Len(t) :
          Cardinality({q \in 1..Len(s) : s[q] = t[p]})
              = Cardinality({q \in 1..Len(t) : t[q] = t[p]})

\* reg.vector holds the collected slopes in ascending order
SlopesSorted ==
    /\ reg.counter = Cardinality(RefCollected)
    /\ Len(reg.vector) = reg.counter
    /\ Ascending(reg.vector)
    /\ \A p \in RefCollected :
          Cardinality({q \in 1..Len(reg.vector) : reg.vector[q] = RefSlope(p)})
              = Cardinality({r \in RefCollected : RefSlope(r) = RefSlope(p)})

\* the median of a sorted array: the middle element, or the mean of the two
\* middle elements
Median(s) ==
    IF Len(s) % 2 = 1 THEN s[(Len(s) + 1) \div 2]
    ELSE Mul(<<1, 2>>, Add(s[Len(s) \div 2], s[Len(s) \div 2 + 1]))

\* C5 as stated: whenever at least one slope is collected, k is the median
\* of the collected pairwise slopes.
C5_SlopeIsMedian ==
    (RegReturnedK /\ reg.counter >= 1) =>
        /\ SlopesSorted
        /\ reg.k = Median(reg.vector)

\* C5, amended: whenever at least one slope is collected and no collected
\* slope is less than -1, the call reads inside the slope vector and k is
\* the median of the collected pairwise slopes.
C5_SlopeIsMedianWhenNoneBelowMinusOne ==
    (RegPastSlope /\ reg.counter >= 1
        /\ \A q \in 1..Len(reg.vector) : ~Lt(reg.vector[q], Num(-1))) =>
        /\ reg.pc # "crashed"
        /\ SlopesSorted
        /\ reg.k = Median(reg.vector)

\* an even number of slopes, none below -1, the median between two of them
C5_Witness ==
    /\ RegReturnedK
    /\ reg.counter = 2
    /\ reg.cutoff = -1
    /\ Lt(reg.vector[1], reg.k) /\ Lt(reg.k, reg.vector[2])

\* t[i] = y[i] - k * x[i]
RefT ==
    [q \in 1..reg.N |->
        IF reg.k[2] # 0
        THEN Frac(reg.y[q][1] * reg.k[2] - reg.k[1] * reg.x[q][1], reg.k[2])
        ELSE Sub(reg.y[q], Mul(reg.k, reg.x[q]))]

\* C6: for every N >= 1 and the k just computed, b is the median of
\* t[i] = y[i] - k * x[i]: the sorted array holds the elements of t in
\* ascending order and b is its middle element for odd N, the mean of its
\* two middle elements for even N.
C6_InterceptIsMedian ==
    reg.pc = "done" =>
        /\ reg.t = RefT
        /\ SameElements(reg.temp, reg.t)
        /\ Ascending(reg.temp)
        /\ reg.b = Median(reg.temp)

\* three points, k read inside the slope vector, and a sort that moved
\* elements of t
C6_Witness ==
    /\ reg.pc = "done"
    /\ reg.N = 3
    /\ \A q \in 1..Len(reg.reads) : reg.reads[q] < reg.counter
    /\ reg.temp # reg.t
    /\ Lt(reg.temp[1], reg.b) /\ Lt(reg.b, reg.temp[3])

\* C18: for N = 5, x = [1,2,3,4,5] and y = [1,2,4,4,5], calculateRegression
\* returns k = 1 and b = 0
C18_FivePointsRegression ==
    (reg.pc = "done" /\ reg.N = 5 /\ reg.x = FivePoints.x /\ reg.y = FivePoints.y) =>
        /\ reg.k = Num(1)
        /\ reg.b = Num(0)

\* the call on the five points has returned, with nine slopes collected and
\* the off-line point sorted to the end of temp
C18_Witness ==
    /\ reg.pc = "done"
    /\ reg.N = 5 /\ reg.x = FivePoints.x /\ reg.y = FivePoints.y
    /\ reg.counter = 9
    /\ reg.temp[5] = Num(1)

----------------------------------------------------------------------------
(* One kernel launch: the grid of work items, each running on its own.     *)

\* numPairs ranges over 1..MaxPairs
MaxPairs == 2

\* numSites ranges over 1..MaxSites, and over the sizes at which a second
\* block of sites begins
MaxSites == 3

\* convergence_cuda.cu line 16
BLOCK_SIZE == 256

\* convergence_metal.m line 299
sitesPerThread == 16

\* gridDim.y rounded down instead of up
CudaGridYFloor(numSites) == numSites \div BLOCK_SIZE

\* gridDim.y, convergence_cuda.cu line 227
CudaGridY(numSites) == (numSites + BLOCK_SIZE - 1) \div BLOCK_SIZE

\* numSiteBlocks, convergence_metal.m line 300
numSiteBlocks(numSites) == (numSites + sitesPerThread - 1) \div sitesPerThread

\* the CUDA threads <<blockIdx.x, blockIdx.y, threadIdx.x>> of the launch of
\* lines 226-239
CudaThreads(l) ==
    (0..(l.numPairs - 1)) \X (0..(CudaGridY(l.numSites) - 1)) \X (0..(BLOCK_SIZE - 1))

\* the Metal threads gid = <<gid.x, gid.y>> of dispatchThreads:gridSize,
\* convergence_metal.m lines 334 and 349
MetalThreads(l) ==
    (0..(l.numPairs - 1)) \X (0..(numSiteBlocks(l.numSites) - 1))

\* kernel line 59
CudaSiteIdx(t) == t[2] * BLOCK_SIZE + t[3]

\* kernel line 61: the thread goes on to its writes
CudaGuard(l, t) == ~(t[1] >= l.numPairs \/ CudaSiteIdx(t) >= l.numSites)

\* kernel line 128 and shader line 122
outIdx(l, pairIdx, siteIdx) == pairIdx * l.numSites + siteIdx

\* pConvergent[c] and pDivergent[c] are written by work item t
WriteCell(w, c, t) ==
    IF c \in DOMAIN w THEN [w EXCEPT ![c] = Append(@, t)] ELSE w @@ (c :> <<t>>)

\* the number of CUDA threads of the launch
CudaTotal(l) == l.numPairs * CudaGridY(l.numSites) * BLOCK_SIZE

\* the p-th thread of the launch in block order
CudaLinear(l, p) ==
    <<p \div (CudaGridY(l.numSites) * BLOCK_SIZE),
      (p \div BLOCK_SIZE) % CudaGridY(l.numSites),
      p % BLOCK_SIZE>>

\* the threads that may run next: any thread that has not run when the
\* schedule is free, the next one in block order, ascending or descending,
\* when it is fixed
CudaRunnable(l) ==
    IF l.order = "any" THEN {t \in CudaThreads(l) : t \notin DOMAIN progress}
    ELSE IF pos >= CudaTotal(l) THEN {}
    ELSE IF l.order = "asc" THEN {CudaLinear(l, pos)}
    ELSE {CudaLinear(l, CudaTotal(l) - 1 - pos)}

\* shader lines 81-83: thread gid has another site to process
MetalContinues(l, gid, s) ==
    s < sitesPerThread /\ gid[2] * sitesPerThread + s < l.numSites

\* the loop iterations thread gid has completed
Iterations(gid) == IF gid \in DOMAIN progress THEN progress[gid] ELSE 0

Launches ==
    [backend : {"cuda", "metal"}, numPairs : 1..MaxPairs, numSites : 1..MaxSites,
     order : {"any"}]
    \cup [backend : {"cuda"}, numPairs : 1..MaxPairs,
          numSites : {BLOCK_SIZE, BLOCK_SIZE + 1}, order : {"asc", "desc"}]
    \cup [backend : {"metal"}, numPairs : 1..MaxPairs,
          numSites : {sitesPerThread, sitesPerThread + 1}, order : {"any"}]

LaunchInit ==
    /\ HostIdle
    /\ KernelIdle
    /\ DevIdle
    /\ RegIdle
    /\ launch \in Launches
    /\ progress = <<>>
    /\ pos = 0
    /\ writers = <<>>

\* one CUDA thread runs the kernel, lines 58-130: it returns at the guard
\* of line 61 or writes its cell
CudaThread ==
    /\ launch.backend = "cuda"
    /\ \E t \in CudaRunnable(launch) :
          /\ pos' = IF launch.order = "any" THEN pos ELSE pos + 1
          /\ IF CudaGuard(launch, t)
             THEN /\ writers' = WriteCell(writers, outIdx(launch, t[1], CudaSiteIdx(t)), t)
                  /\ progress' = IF launch.order = "any"
                                 THEN progress @@ (t :> 1) ELSE progress
             ELSE UNCHANGED <<writers, progress>>
    /\ UNCHANGED <<launch, kvars, dvars, rvars, hvars>>

\* one Metal thread runs one iteration of the loop of shader lines 81-125
MetalThread ==
    /\ launch.backend = "metal"
    /\ \E gid \in MetalThreads(launch) :
          LET s == Iterations(gid)
              siteIdx == gid[2] * sitesPerThread + s
          IN  /\ gid[1] < launch.numPairs
              /\ MetalContinues(launch, gid, s)
              /\ writers' = WriteCell(writers, outIdx(launch, gid[1], siteIdx), gid)
              /\ progress' = IF gid \in DOMAIN progress
                             THEN [progress EXCEPT ![gid] = s + 1]
                             ELSE progress @@ (gid :> 1)
    /\ UNCHANGED <<launch, pos, kvars, dvars, rvars, hvars>>

LaunchNext == CudaThread \/ MetalThread

SpecLaunch == LaunchInit /\ [][LaunchNext]_vars

\* every work item of the launch has run to its end
LaunchDone ==
    IF launch.backend = "metal"
    THEN \A gid \in MetalThreads(launch) : ~MetalContinues(launch, gid, Iterations(gid))
    ELSE IF launch.order = "any"
    THEN \A t \in CudaThreads(launch) : t \in DOMAIN progress \/ ~CudaGuard(launch, t)
    ELSE pos = CudaTotal(launch)

\* the cells pair * numSites + site of the output arrays
OutputCells == 0..(launch.numPairs * launch.numSites - 1)

\* C7: in every interleaving of the work items of a launch, no cell outside
\* pair * numSites + site (pair < numPairs, site < numSites) is written, no
\* cell is written twice or by two work items, and when every work item has
\* run each of these cells has been written exactly once.
C7_EachCellWrittenOnce ==
    /\ \A c \in DOMAIN writers : c \in OutputCells /\ Len(writers[c]) = 1
    /\ LaunchDone => DOMAIN writers = OutputCells

\* a CUDA launch of two blocks per pair has run to its end
C7_Witness ==
    /\ launch.backend = "cuda"
    /\ launch.numSites = BLOCK_SIZE + 1
    /\ launch.numPairs = MaxPairs
    /\ LaunchDone
    /\ Cardinality(DOMAIN writers) = MaxPairs * (BLOCK_SIZE + 1)

----------------------------------------------------------------------------
(* Branch-pair enumeration over a rooted tree.                             *)

\* trees have 3..MaxNodes nodes
MaxNodes == 5

\* the node ids of a tree of nnode nodes
NodeIds(nnode) == 0..(nnode - 1)

\* the chain of fathers above node d: its proper ancestors
RECURSIVE FathersOf(_, _)
FathersOf(father, d) ==
    IF father[d] = -1 THEN {} ELSE {father[d]} \cup FathersOf(father, father[d])

\* father[d] followed at most fuel times reaches the root
RECURSIVE ReachesRoot(_, _, _)
ReachesRoot(father, d, fuel) ==
    IF father[d] = -1 THEN TRUE
    ELSE IF fuel = 0 THEN FALSE
    ELSE ReachesRoot(father, father[d], fuel - 1)

\* the sons of node p
SonsOf(father, p) == {c \in DOMAIN father : father[c] = p}

\* Tree: one root, every other node below it, leaf ids dense in [0, nleaf),
\* internal node ids in [nleaf, nnode)
IsTree(father) ==
    LET ids  == DOMAIN father
        leaf == {d \in ids : SonsOf(father, d) = {}}
    IN  /\ Cardinality({d \in ids : father[d] = -1}) = 1
        /\ \A d \in ids : father[d] # d /\ ReachesRoot(father, d, Cardinality(ids))
        /\ \A d \in ids : father[d] = -1 => d \notin leaf
        /\ \A l \in leaf : \A d \in ids \ leaf : l < d

Trees ==
    UNION {{father \in [NodeIds(nnode) -> {-1} \cup NodeIds(nnode)] : IsTree(father)} :
           nnode \in 3..MaxNodes}

\* the root of a tree
RootOf(father) == CHOOSE d \in DOMAIN father : father[d] = -1

\* the ancestor index: one pre-order pass from the root, where each node
\* inherits its father's set and then adds itself
RECURSIVE PreOrder(_, _, _)
PreOrder(father, anc, frontier) ==
    IF frontier = {} THEN anc
    ELSE LET sons == UNION {SonsOf(father, p) : p \in frontier}
             next == [d \in DOMAIN anc \cup sons |->
                         IF d \in sons THEN anc[father[d]] \cup {d} ELSE anc[d]]
         IN  PreOrder(father, next, sons)

AncestorSets(father) ==
    LET root == RootOf(father)
    IN  PreOrder(father, [d \in {root} |-> {root}], {root})

\* the independence test with one of its two halves left out
IndependentOneSided(anc, u, v) == u \notin anc[v]

\* the independence predicate on the ancestor index
Independent(anc, u, v) == u \notin anc[v] /\ v \notin anc[u]

\* a requested pair canonicalized to u < v
Canonical(pair) ==
    IF pair[1] <= pair[2] THEN pair ELSE <<pair[2], pair[1]>>

\* a requested pair that refers to two distinct non-root nodes of the tree,
\* neither an ancestor of the other
ValidSelection(father, anc, pair) ==
    /\ pair[1] \in DOMAIN father /\ pair[2] \in DOMAIN father
    /\ pair[1] # pair[2]
    /\ father[pair[1]] # -1 /\ father[pair[2]] # -1
    /\ Independent(anc, pair[1], pair[2])

\* the inner loop over v > u: the triples emitted for one u
RECURSIVE InnerLoop(_, _, _, _, _, _)
InnerLoop(father, anc, selection, u, v, out) ==
    IF v >= Cardinality(DOMAIN father) THEN out
    ELSE LET emit == /\ father[u] # -1 /\ father[v] # -1
                     /\ Independent(anc, u, v)
             sel  == IF \E q \in 1..Len(selection) : Canonical(selection[q]) = <<u, v>>
                     THEN 1 ELSE 0
         IN  InnerLoop(father, anc, selection, u, v + 1,
                       IF emit THEN Append(out, <<u, v, sel>>) ELSE out)

\* the user's selection lists: nothing, or one pair in either order, which
\* may name the same node twice or a node id one past the last
Selections(father) ==
    LET ids == DOMAIN father \cup {Cardinality(DOMAIN father)}
    IN  {<<>>} \cup {<<<<a, b>>>> : a \in ids, b \in ids}

EnumInit ==
    /\ KernelIdle
    /\ DevIdle
    /\ RegIdle
    /\ LaunchIdle
    /\ AddrIdle
    /\ TreeIdle
    /\ SinkIdle
    /\ AccessIdle
    /\ CountIdle
    /\ \E father \in Trees : \E selection \in Selections(father) :
          enum = [pc |-> "index", father |-> father, selection |-> selection]

\* the pre-order pass, then the check of the requested pairs
EnumIndex ==
    /\ enum.pc = "index"
    /\ LET anc == AncestorSets(enum.father)
           bad == {q \in 1..Len(enum.selection) :
                      ~ValidSelection(enum.father, anc, enum.selection[q])}
       IN  enum' = IF bad = {}
                   THEN [pc |-> "pairs", father |-> enum.father,
                         selection |-> enum.selection, anc |-> anc,
                         u |-> 0, pairs |-> <<>>]
                   ELSE [pc |-> "InvalidBranchPairSelection",
                         father |-> enum.father, selection |-> enum.selection,
                         offending |-> enum.selection[CHOOSE q \in bad : \A r \in bad : q <= r]]
    /\ UNCHANGED <<kvars, dvars, rvars, lvars, ivars, tvars, svars, avars, cvars>>

\* one iteration of the outer loop over u ascending
EnumOuter ==
    /\ enum.pc = "pairs"
    /\ enum' = IF enum.u >= Cardinality(DOMAIN enum.father)
               THEN [enum EXCEPT !.pc = "done"]
               ELSE [enum EXCEPT !.u = @ + 1,
                                 !.pairs = InnerLoop(enum.father, enum.anc, enum.selection,
                                                     enum.u, enum.u + 1, @)]
    /\ UNCHANGED <<kvars, dvars, rvars, lvars, ivars, tvars, svars, avars, cvars>>

EnumNext == EnumIndex \/ EnumOuter

SpecEnum == EnumInit /\ [][EnumNext]_vars

\* u precedes v in the order: by first node, then by second node
PairBefore(a, b) == a[1] < b[1] \/ (a[1] = b[1] /\ a[2] < b[2])

\* the independent pairs of a tree, by the chain of fathers
IndependentPairs(father) ==
    {<<u, v>> \in (DOMAIN father) \X (DOMAIN father) :
        /\ u < v
        /\ father[u] # -1 /\ father[v] # -1
        /\ u \notin FathersOf(father, v)
        /\ v \notin FathersOf(father, u)}

\* C11: for every rooted tree the enumerator returns exactly the pairs (u, v)
\* of distinct non-root nodes with u < v of which neither is an ancestor of
\* the other, ordered by u ascending and, for equal u, by v ascending
C11_EnumeratesIndependentPairs ==
    enum.pc = "done" =>
        /\ {<<enum.pairs[q][1], enum.pairs[q][2]>> : q \in 1..Len(enum.pairs)}
              = IndependentPairs(enum.father)
        /\ \A q \in 1..(Len(enum.pairs) - 1) : PairBefore(enum.pairs[q], enum.pairs[q + 1])

\* a finished enumeration over a tree with an internal non-root node, which
\* emitted two pairs with the same first node
C11_Witness ==
    /\ enum.pc = "done"
    /\ \E d \in DOMAIN enum.father :
          enum.father[d] # -1 /\ SonsOf(enum.father, d) # {}
    /\ \E q \in 1..(Len(enum.pairs) - 1) : enum.pairs[q][1] = enum.pairs[q + 1][1]

----------------------------------------------------------------------------
(* Result emission: outputDataInJS and generateHTML.  A file is the        *)
(* sequence of what was printed to it.  A printed list is a sequence of    *)
(* tokens [t, k, v]: the brackets and commas the format strings print, and *)
(* one item per conversion group, with v the integers it prints.           *)

\* numBranchPairs ranges over 1..MaxEmitPairs
MaxEmitPairs == 3

\* numOfSelectedBranchPairs ranges over 0..MaxSelected
MaxSelected == 2

\* lst, the number of sites, ranges over 1..MaxLst
MaxLst == 2

Open == [t |-> "[", k |-> "", v |-> <<>>]
Close == [t |-> "]", k |-> "", v |-> <<>>]
Comma == [t |-> ",", k |-> "", v |-> <<>>]
Item(k, v) == [t |-> "item", k |-> k, v |-> v]

\* "%f" and "%.6f" of a double: the value in millionths, rounded (a tie
\* rounded up)
FormatF(d) ==
    IF d[2] = 0 THEN Item(IF IsNaN(d) THEN "nan" ELSE IF d[1] > 0 THEN "inf" ELSE "-inf", <<>>)
    ELSE LET twice == 2 * d[1] * 1000000 + d[2]
         IN  Item("num", <<twice \div (2 * d[2])>>)

\* "%.6f" of a float given in units of 1e-7: the value in millionths
FormatMap(w) == (w + 5) \div 10

\* makeupDataOutput(data, type), lines 60-71: type, " = ", data
makeupDataOutput(data, type) == [name |-> type, value |-> data]

\* fprintf(file, "%s;\n", s): the file with one more statement
PrintStatement(file, s) == Append(file, s)

\* lines 237-248 and 250-257: "[ ", every element but the last followed by
\* ", ", the last element, " ]"
RECURSIVE JoinAll(_, _, _)
JoinAll(items, ig, out) ==
    IF ig >= Len(items) - 1 THEN out \o <<At(items, ig), Close>>
    ELSE JoinAll(items, ig + 1, out \o <<At(items, ig), Comma>>)

\* siteSpecificMap[ig*lst*2 + h*2 + c]
MapAt(siteSpecificMap, lst, ig, h, c) == At(siteSpecificMap, ig * lst * 2 + h * 2 + c)

\* line 364 and line 367: the site is printed
SitePrinted(siteSpecificMap, lst, ig, h) ==
    MapAt(siteSpecificMap, lst, ig, h, 0) # 0 \/ MapAt(siteSpecificMap, lst, ig, h, 1) # 0

\* the triple "[%d, %.6f, %.6f]" of site h
SiteTriple(siteSpecificMap, lst, ig, h) ==
    Item("triple", <<h, FormatMap(MapAt(siteSpecificMap, lst, ig, h, 0)),
                     FormatMap(MapAt(siteSpecificMap, lst, ig, h, 1))>>)

\* lines 363-366 printing every site
SiteLoopDense(siteSpecificMap, lst, ig, h, out) ==
    out \o [q \in 1..(2 * (lst - 1 - h)) |->
               IF q % 2 = 1 THEN SiteTriple(siteSpecificMap, lst, ig, h + (q - 1) \div 2)
               ELSE Comma]

\* lines 363-366: siteSpecificBP after the loop over h < lst-1, from site h
RECURSIVE SiteLoop(_, _, _, _, _)
SiteLoop(siteSpecificMap, lst, ig, h, out) ==
    IF h >= lst - 1 THEN out
    ELSE SiteLoop(siteSpecificMap, lst, ig, h + 1,
                  IF SitePrinted(siteSpecificMap, lst, ig, h)
                  THEN out \o <<SiteTriple(siteSpecificMap, lst, ig, h), Comma>>
                  ELSE out)

\* lines 361-369: siteSpecificBP of selected pair ig
SiteSpecificBP(siteSpecificMap, lst, ig) ==
    LET body == SiteLoop(siteSpecificMap, lst, ig, 0, <<Open>>)
        h == lst - 1
    IN  (IF SitePrinted(siteSpecificMap, lst, ig, h)
         THEN body \o <<SiteTriple(siteSpecificMap, lst, ig, h)>> ELSE body) \o <<Close>>

\* line 373 reading the first pair's ids for every ig
BranchPairIDsFirst(selectedBranchPairs, ig) ==
    <<At(selectedBranchPairs, 0), At(selectedBranchPairs, 1)>>

\* lines 373-374: the two ids printed into branchPairIDs and branchPairNames
BranchPairIDs(selectedBranchPairs, ig) ==
    <<At(selectedBranchPairs, ig * 3), At(selectedBranchPairs, ig * 3 + 1)>>

\* lines 360-391: the data file and the three lists after the loop over the
\* selected pairs, from pair ig
RECURSIVE SelectedLoop(_, _, _, _, _, _)
SelectedLoop(siteSpecificMap, selectedBranchPairs, numOfSelectedBranchPairs, lst, ig, acc) ==
    IF ig >= numOfSelectedBranchPairs THEN acc
    ELSE LET ids == BranchPairIDs(selectedBranchPairs, ig)
             siteSpecificBP == makeupDataOutput(SiteSpecificBP(siteSpecificMap, lst, ig),
                                                Item("BP", ids))
             tail == IF ig < numOfSelectedBranchPairs - 1 THEN Comma ELSE Close
         IN  SelectedLoop(siteSpecificMap, selectedBranchPairs, numOfSelectedBranchPairs,
                          lst, ig + 1,
                 [dataFile |-> PrintStatement(acc.dataFile, siteSpecificBP),
                  siteSpecificBranchPairs |->
                      acc.siteSpecificBranchPairs \o <<Item("BP", ids), tail>>,
                  siteSpecificBranchPairsName |->
                      acc.siteSpecificBranchPairsName \o <<Item("name", ids), tail>>,
                  siteSpecificBranchPairsIDs |->
                      acc.siteSpecificBranchPairsIDs \o <<Item("quoted", ids), tail>>])

\* lines 347-402: the site-specific part of the data file
SiteSpecificPart(dataFile, siteSpecificMap, selectedBranchPairs, numOfSelectedBranchPairs, lst) ==
    LET empty == numOfSelectedBranchPairs = 0
        start == [dataFile |-> dataFile,
                  siteSpecificBranchPairs |-> IF empty THEN <<Open, Close>> ELSE <<Open>>,
                  siteSpecificBranchPairsName |-> IF empty THEN <<Open, Close>> ELSE <<Open>>,
                  siteSpecificBranchPairsIDs |-> <<Open>>]
        looped == SelectedLoop(siteSpecificMap, selectedBranchPairs,
                               numOfSelectedBranchPairs, lst, 0, start)
        ids == IF empty THEN looped.siteSpecificBranchPairsIDs \o <<Close>>
               ELSE looped.siteSpecificBranchPairsIDs
        f1 == PrintStatement(looped.dataFile,
                  makeupDataOutput(looped.siteSpecificBranchPairs,
                                   Item("siteSpecificBranchPairs", <<>>)))
        f2 == PrintStatement(f1,
                  makeupDataOutput(looped.siteSpecificBranchPairsName,
                                   Item("siteSpecificBranchPairsName", <<>>)))
    IN  PrintStatement(f2, makeupDataOutput(ids, Item("siteSpecificBranchPairsIDs", <<>>)))

\* lines 226-266 and 307-340: the functions, the scalars and the
\* scatter-plot lists
ScalarPart(in, father, k, b) ==
    LET node1 == in.node1
        node2 == in.node2
        pDiv == in.pDiv
        pAllConv == in.pAllConv
        numOfSelectedBranchPairs == in.numOfSelectedBranchPairs
        numBranchPairs == in.numBranchPairs
        lst == in.lst
        postNumSub == in.postNumSub
        siteClass == in.siteClass
        xs == [q \in 1..numBranchPairs |-> FormatF(pDiv[q])]
        ys == [q \in 1..numBranchPairs |-> FormatF(pAllConv[q])]
        ls == [q \in 1..numBranchPairs |->
                  Item("label", <<father[node1[q]], node1[q], father[node2[q]], node2[q]>>)]
        ps == [q \in 1..lst |-> FormatF(postNumSub[q])]
        cs == [q \in 1..lst |-> Item("int", <<siteClass[q]>>)]
        stmt(name, data) == makeupDataOutput(data, Item(name, <<>>))
    IN  << stmt("functions", <<>>),
           stmt("regressionSlope", <<FormatF(k)>>),
           stmt("regressionIntercept", <<FormatF(b)>>),
           stmt("numOfSelectedBranchPairs", <<Item("int", <<numOfSelectedBranchPairs>>)>>),
           stmt("numOfSites", <<Item("int", <<lst>>)>>),
           stmt("tree", <<>>),
           stmt("xPoints", JoinAll(xs, 0, <<Open>>)),
           stmt("yPoints", JoinAll(ys, 0, <<Open>>)),
           stmt("labels", JoinAll(ls, 0, <<Open>>)),
           stmt("xPostNumSub", JoinAll(ps, 0, <<Open>>)),
           stmt("ySiteClass", JoinAll(cs, 0, <<Open>>)) >>

\* line 222: the (k, b) calculateRegression can leave, or "crashed"
Regression(x, y, N) ==
    LET counter == Pass1(x, y, N, 0, 1, 0)
        filled == Pass2(x, y, N, 0, 1, <<>>)
        Outcomes(vector, g1, g2) ==
            LET cutoff == CutoffLoop(vector, counter, 0, 0)
                reads == SlopeReads(counter, cutoff)
                inside == \A q \in 1..Len(reads) : 0 <= reads[q] /\ reads[q] < counter
                vals == [q \in 1..Len(reads) |->
                            ReadVector(vector, counter, reads[q], IF q = 1 THEN g1 ELSE g2)]
                k == SlopeK(vals)
            IN  {[crashed |-> FALSE, k |-> k, b |-> InterceptB(temp, N)] :
                      temp \in qsort(TempOf(x, y, N, k))}
                \cup (IF inside THEN {} ELSE {[crashed |-> TRUE, k |-> NaN, b |-> NaN]})
    IN  UNION {Outcomes(vector, g1, g2) :
                  vector \in qsort(filled), g1 \in GarbageValues, g2 \in GarbageValues}

\* a line printed to an HTML file: a template line with the markers it holds,
\* the script tag, a per-pair block, or the placeholder
HtmlLine(t, m, v) == [t |-> t, m |-> m, v |-> v]

\* lines 100-109, 116-125 and 128-134: one block per selected pair
PairBlocks(kind, selectedBranchPairs, numOfSelectedBranchPairs) ==
    [q \in 1..numOfSelectedBranchPairs |->
        HtmlLine(kind, {}, BranchPairIDs(selectedBranchPairs, q - 1))]

\* lines 110-113 and 135-138
Placeholder(numOfSelectedBranchPairs) ==
    IF numOfSelectedBranchPairs = 0 THEN <<HtmlLine("placeholder", {}, <<>>)>> ELSE <<>>

\* lines 95-139: what one template line prints
PrintLine(line, selectedBranchPairs, numOfSelectedBranchPairs) ==
    <<HtmlLine("line", line, <<>>)>>
    \o (IF "@dataTag" \in line THEN <<HtmlLine("script", {}, <<>>)>> ELSE <<>>)
    \o (IF "@tableAndPlot" \in line
        THEN PairBlocks("barPlot", selectedBranchPairs, numOfSelectedBranchPairs)
             \o Placeholder(numOfSelectedBranchPairs)
        ELSE <<>>)
    \o (IF "@rateVsDivPlot" \in line
        THEN PairBlocks("barPlot", selectedBranchPairs, numOfSelectedBranchPairs)
        ELSE <<>>)
    \o (IF "@plot" \in line
        THEN PairBlocks("data-plot", selectedBranchPairs, numOfSelectedBranchPairs)
             \o Placeholder(numOfSelectedBranchPairs)
        ELSE <<>>)

\* lines 93-140: newHTML after the template has been read to its end
RECURSIVE generateHTML(_, _, _, _)
generateHTML(template, selectedBranchPairs, numOfSelectedBranchPairs, newHTML) ==
    IF template = <<>> THEN newHTML
    ELSE generateHTML(Tail(template), selectedBranchPairs, numOfSelectedBranchPairs,
                      newHTML \o PrintLine(Head(template), selectedBranchPairs,
                                           numOfSelectedBranchPairs))

\* lines 408-412: the five calls, with the output file and whether the
\* selected pairs are passed on
HtmlCalls ==
    << [path |-> "htmlFileName", selected |-> FALSE],
       [path |-> "sheet", selected |-> FALSE],
       [path |-> "siteSpecific", selected |-> TRUE],
       [path |-> "rateVsDiversity", selected |-> FALSE],
       [path |-> "rateVsProbConvergence", selected |-> TRUE] >>

OutputPaths == {"Data.js"} \cup {HtmlCalls[q].path : q \in 1..Len(HtmlCalls)}

\* the template files: each a sequence of lines, a line the set of markers
\* it contains
Templates ==
    { << {}, {"@dataTag"}, {"@tableAndPlot"}, {"@rateVsDivPlot"}, {"@plot"} >>,
      << {"@dataTag"}, {"@plot"}, {} >>,
      << {"@tableAndPlot", "@plot"} >> }

\* a file left by an earlier run, and a file opened with "w"
PriorFile == [prior |-> TRUE, content |-> <<>>]
NewFile(content) == [prior |-> FALSE, content |-> content]

\* the branch pairs of the caller's tree: father, node1[], node2[]
EmitFather == [d \in 0..4 |-> IF d = 3 THEN -1 ELSE IF d \in {0, 1} THEN 4 ELSE 3]
EmitPairs == << <<0, 1>>, <<0, 2>>, <<1, 2>>, <<2, 4>> >>

\* what a site holds for a selected pair: nothing, a convergence value, a
\* divergence value, or a convergence value below the printed precision
SiteKinds == {"zero", "conv", "div", "tiny"}

\* siteSpecificMap, in units of 1e-7
MapOf(kinds, numOfSelectedBranchPairs, lst) ==
    [q \in 1..(numOfSelectedBranchPairs * lst * 2) |->
        LET ig == (q - 1) \div (lst * 2)
            h == ((q - 1) % (lst * 2)) \div 2
            c == (q - 1) % 2
            value == 1000000 * (ig + 1) + 10 * (h + 1) + 2
        IN  IF kinds[h + 1] = "conv" /\ c = 0 THEN value
            ELSE IF kinds[h + 1] = "div" /\ c = 1 THEN value
            ELSE IF kinds[h + 1] = "tiny" /\ c = 0 THEN 3
            ELSE 0]

\* selectedBranchPairs: one triple per chosen pair
RECURSIVE TriplesOf(_)
TriplesOf(chosen) ==
    IF chosen = <<>> THEN <<>>
    ELSE <<EmitPairs[Head(chosen)][1], EmitPairs[Head(chosen)][2], Head(chosen) - 1>>
         \o TriplesOf(Tail(chosen))

\* the arguments of one call of outputDataInJS, and the template files
SinkInput(N, ns, lst, chosen, kinds, template) ==
    [numBranchPairs |-> N,
     node1 |-> [q \in 1..N |-> EmitPairs[q][1]],
     node2 |-> [q \in 1..N |-> EmitPairs[q][2]],
     pDiv |-> [q \in 1..N |-> Num(q - 1)],
     pAllConv |-> [q \in 1..N |-> Num((q - 1) * (q - 1))],
     numOfSelectedBranchPairs |-> ns,
     selectedBranchPairs |-> TriplesOf(chosen),
     lst |-> lst,
     siteSpecificMap |-> MapOf(kinds, ns, lst),
     postNumSub |-> [h \in 1..lst |-> Num(h)],
     siteClass |-> [h \in 1..lst |-> h % 2],
     template |-> template]

SinkInit ==
    /\ KernelIdle
    /\ DevIdle
    /\ RegIdle
    /\ LaunchIdle
    /\ AddrIdle
    /\ TreeIdle
    /\ EnumIdle
    /\ AccessIdle
    /\ CountIdle
    /\ fs = [path \in OutputPaths |-> PriorFile]
    /\ \E N \in 1..MaxEmitPairs, ns \in 0..MaxSelected, lst \in 1..MaxLst :
          \E chosen \in [1..ns -> 1..N], kinds \in [1..lst -> SiteKinds],
             template \in Templates :
             sink = [pc |-> "data", call |-> 0,
                     in |-> SinkInput(N, ns, lst, chosen, kinds, template)]

\* outputDataInJS, lines 214-405: the regression and the data file
EmitData ==
    /\ sink.pc = "data"
    /\ LET in == sink.in
       IN  \E r \in Regression(in.pDiv, in.pAllConv, in.numBranchPairs), opened \in BOOLEAN :
              IF r.crashed \/ ~opened
              THEN /\ sink' = [sink EXCEPT !.pc = "failed"]
                   /\ UNCHANGED fs
              ELSE LET scalars == ScalarPart(in, EmitFather, r.k, r.b)
                       dataFile == SiteSpecificPart(scalars, in.siteSpecificMap,
                                      in.selectedBranchPairs, in.numOfSelectedBranchPairs,
                                      in.lst)
                   IN  /\ sink' = [sink EXCEPT !.pc = "html", !.call = 1]
                       /\ fs' = [fs EXCEPT !["Data.js"] = NewFile(dataFile)]
    /\ UNCHANGED <<kvars, dvars, rvars, lvars, ivars, tvars, evars, avars, cvars>>

\* one call of generateHTML, lines 73-144.  Neither fopen is checked: with
\* the template or the output file not opened, the first fgets or fprintf
\* ends the program
EmitHTML ==
    /\ sink.pc = "html"
    /\ LET c == HtmlCalls[sink.call]
           ns == IF c.selected THEN sink.in.numOfSelectedBranchPairs ELSE 0
       IN  \E templateOpened \in BOOLEAN, opened \in BOOLEAN :
              IF templateOpened /\ opened
              THEN /\ fs' = [fs EXCEPT ![c.path] =
                               NewFile(generateHTML(sink.in.template,
                                                    sink.in.selectedBranchPairs, ns, <<>>))]
                   /\ sink' = IF sink.call = Len(HtmlCalls)
                              THEN [sink EXCEPT !.pc = "done"]
                              ELSE [sink EXCEPT !.call = @ + 1]
              ELSE /\ fs' = IF opened THEN [fs EXCEPT ![c.path] = NewFile(<<>>)] ELSE fs
                   /\ sink' = [sink EXCEPT !.pc = "failed"]
    /\ UNCHANGED <<kvars, dvars, rvars, lvars, ivars, tvars, evars, avars, cvars>>

SinkNext == EmitData \/ EmitHTML

SpecSink == SinkInit /\ [][SinkNext]_vars

\* the data file at its output path, once it has been written
DataFile == fs["Data.js"].content
DataWritten == sink.pc # "idle" /\ ~fs["Data.js"].prior

\* the statements of the data file whose symbol is of kind k
StatementsOf(k) == SelectSeq(DataFile, LAMBDA s : s.name.k = k)

\* a printed list that reads as a list: brackets at both ends only, items
\* separated by single commas
WellFormedList(toks) ==
    /\ Len(toks) >= 2
    /\ toks[1] = Open /\ toks[Len(toks)] = Close
    /\ \A q \in 2..(Len(toks) - 1) :
          /\ toks[q].t \in {"item", ","}
          /\ toks[q].t = "," => q > 2 /\ toks[q - 1].t = "item"
          /\ toks[q].t = "item" => q = 2 \/ toks[q - 1].t = ","

\* the items of a printed list, in order
ItemsOf(toks) == SelectSeq(toks, LAMBDA tok : tok.t = "item")

\* the pairs passed as selected, in the order of the triples
SelectedPairs ==
    [q \in 1..sink.in.numOfSelectedBranchPairs |->
        <<sink.in.selectedBranchPairs[3 * q - 2], sink.in.selectedBranchPairs[3 * q - 1]>>]

\* the list statement of kind name holds items of kind k for exactly the
\* selected pairs, in order
ListsSelected(name, k) ==
    /\ Len(StatementsOf(name)) = 1
    /\ WellFormedList(StatementsOf(name)[1].value)
    /\ ItemsOf(StatementsOf(name)[1].value)
          = [q \in 1..Len(SelectedPairs) |-> Item(k, SelectedPairs[q])]

\* C12: for any list of k selected pairs the data file holds exactly k
\* per-pair arrays BP_uxv, in the order of the selected triples, the three
\* site-specific lists name exactly those pairs in that order, and the
\* scatter-plot lists hold every pair
C12_SelectionRespected ==
    DataWritten =>
        /\ [q \in 1..Len(StatementsOf("BP")) |-> StatementsOf("BP")[q].name.v] = SelectedPairs
        /\ ListsSelected("siteSpecificBranchPairs", "BP")
        /\ ListsSelected("siteSpecificBranchPairsName", "name")
        /\ ListsSelected("siteSpecificBranchPairsIDs", "quoted")
        /\ Len(ItemsOf(StatementsOf("labels")[1].value)) = sink.in.numBranchPairs
        /\ Len(ItemsOf(StatementsOf("xPoints")[1].value)) = sink.in.numBranchPairs
        /\ Len(ItemsOf(StatementsOf("yPoints")[1].value)) = sink.in.numBranchPairs

\* two different pairs selected out of three, the later one first
C12_Witness ==
    /\ sink.pc = "done"
    /\ sink.in.numBranchPairs = 3
    /\ Len(StatementsOf("BP")) = 2
    /\ StatementsOf("BP")[1].name.v = <<1, 2>>
    /\ StatementsOf("BP")[2].name.v = <<0, 1>>

\* the triple the data file shows for site h of selected pair ig
ExpectedTriple(ig, h) ==
    LET at(c) == sink.in.siteSpecificMap[ig * sink.in.lst * 2 + h * 2 + c + 1]
    IN  Item("triple", <<h, (at(0) + 5) \div 10, (at(1) + 5) \div 10>>)

\* the sites of selected pair ig with a convergence or a divergence value
NonzeroSites(ig) ==
    {h \in 0..(sink.in.lst - 1) :
        \/ sink.in.siteSpecificMap[ig * sink.in.lst * 2 + h * 2 + 1] # 0
        \/ sink.in.siteSpecificMap[ig * sink.in.lst * 2 + h * 2 + 2] # 0}

\* the triples of the sites in S, in ascending site order
RECURSIVE TriplesAscending(_, _)
TriplesAscending(ig, S) ==
    IF S = {} THEN <<>>
    ELSE LET h == CHOOSE m \in S : \A o \in S : m <= o
         IN  <<ExpectedTriple(ig, h)>> \o TriplesAscending(ig, S \ {h})

\* C13 as stated: the per-pair array of each selected pair holds one triple
\* for every site index in [0, numSites), in ascending site order, sites
\* with conv = div = 0 included
C13_DensePerSiteTable ==
    DataWritten =>
        \A q \in 1..Len(StatementsOf("BP")) :
            ItemsOf(StatementsOf("BP")[q].value)
                = TriplesAscending(q - 1, 0..(sink.in.lst - 1))

\* C13 amended: the per-pair array of each selected pair holds one triple
\* for every site whose conv or div is not zero, in ascending site order,
\* and none for a site whose conv and div are both zero
C13_NonzeroSitesTable ==
    DataWritten =>
        \A q \in 1..Len(StatementsOf("BP")) :
            ItemsOf(StatementsOf("BP")[q].value) = TriplesAscending(q - 1, NonzeroSites(q - 1))

\* a selected pair with a printed site followed by a site left out
C13_Witness ==
    /\ sink.pc = "done"
    /\ Len(StatementsOf("BP")) >= 1
    /\ sink.in.lst = 2
    /\ NonzeroSites(0) = {0}
    /\ Len(ItemsOf(StatementsOf("BP")[1].value)) = 1

\* the markers after which per-pair blocks are printed
PairMarkers == {"@tableAndPlot", "@rateVsDivPlot", "@plot"}

\* what follows the line at position p of an HTML file, up to the next
\* template line
RECURSIVE FollowingLine(_, _)
FollowingLine(html, p) ==
    IF p + 1 > Len(html) \/ html[p + 1].t = "line" THEN <<>>
    ELSE <<html[p + 1]>> \o FollowingLine(html, p + 1)

\* an HTML file that is its template with the placeholder after every line
\* holding a per-pair marker, and with no per-pair block
SkeletonOf(html, template) ==
    /\ [q \in 1..Len(SelectSeq(html, LAMBDA l : l.t = "line")) |->
           SelectSeq(html, LAMBDA l : l.t = "line")[q].m] = template
    /\ \A p \in 1..Len(html) :
          /\ html[p].t \notin {"barPlot", "data-plot"}
          /\ (html[p].t = "line" /\ html[p].m \cap PairMarkers # {}) =>
                \E q \in 1..Len(FollowingLine(html, p)) :
                    FollowingLine(html, p)[q].t = "placeholder"

\* C14: with zero selected pairs no BP_uxv array is written, the three
\* site-specific lists are well-formed empty lists, and every generated HTML
\* file is its template with each per-pair marker line followed by the
\* placeholder
C14_EmptySelectionSkeleton ==
    (sink.pc = "done" /\ sink.in.numOfSelectedBranchPairs = 0) =>
        /\ StatementsOf("BP") = <<>>
        /\ ListsSelected("siteSpecificBranchPairs", "BP")
        /\ ListsSelected("siteSpecificBranchPairsName", "name")
        /\ ListsSelected("siteSpecificBranchPairsIDs", "quoted")
        /\ \A q \in 1..Len(HtmlCalls) :
              SkeletonOf(fs[HtmlCalls[q].path].content, sink.in.template)

\* C15: when emitting an artifact fails, every output file that existed
\* before is left as it was
C15_FailureKeepsPriorOutputs ==
    sink.pc = "failed" => \A path \in OutputPaths : fs[path].prior

----------------------------------------------------------------------------
(* The indexes a kernel thread uses, for one site and the kernel           *)
(* parameter n: the state loops, the per-thread arrays and the matrices.   *)

\* the values of n the kernels are run with
KernelSizes == {4, 20, 61}

\* the CUDA kernel, the kernel of convergence_metal.metal and the shader
\* source embedded in convergence_metal.m
Kernels == {"cuda", "metal", "shader"}

\* the bound of the loops over states: n in the CUDA kernel (lines 86, 88,
\* 103, 114, 116), the literal 20 in both Metal kernels (lines 91, 96, 107,
\* 116, 120)
LoopBound(kernel, n) == IF kernel = "cuda" THEN n ELSE KernelStates

\* the offsets from P1 or P2 read in row j: P[j*n + k] for every k of the
\* inner loop, and the diagonal P[j*n + j]
RowReads(n, j, bound) == {j * n + k : k \in 0..(bound - 1)} \cup {j * n + j}

\* the indexes of sumcK and sumdK used in row j
RowSlots(j, bound) == 0..(bound - 1) \cup {j}

AccessInit ==
    /\ KernelIdle
    /\ DevIdle
    /\ RegIdle
    /\ LaunchIdle
    /\ AddrIdle
    /\ TreeIdle
    /\ EnumIdle
    /\ SinkIdle
    /\ CountIdle
    /\ \E kernel \in Kernels, n \in KernelSizes :
          access = [phase |-> "init", kernel |-> kernel, n |-> n, j |-> 0,
                    rows |-> {}, cols |-> {}, slots |-> {}, reads |-> {}]

\* the loop that zeroes sumcK[0..19]
AccessZero ==
    /\ access.phase = "init"
    /\ access' = [access EXCEPT !.phase = "sum",
                                !.slots = @ \cup 0..(KernelStates - 1)]
    /\ UNCHANGED <<kvars, dvars, rvars, lvars, ivars, tvars, evars, svars, cvars>>

\* one row of the loop nest over P2, or of the loop nest over P1
AccessRow ==
    /\ access.phase \in {"sum", "prob"}
    /\ LET bound == LoopBound(access.kernel, access.n)
       IN  access' =
              IF access.j >= bound
              THEN [access EXCEPT !.phase = IF access.phase = "sum" THEN "sumdK" ELSE "done"]
              ELSE [access EXCEPT !.j = @ + 1,
                                  !.rows = @ \cup {access.j},
                                  !.cols = @ \cup 0..(bound - 1),
                                  !.slots = @ \cup RowSlots(access.j, bound),
                                  !.reads = @ \cup RowReads(access.n, access.j, bound)]
    /\ UNCHANGED <<kvars, dvars, rvars, lvars, ivars, tvars, evars, svars, cvars>>

\* the loop that fills sumdK
AccessSumdK ==
    /\ access.phase = "sumdK"
    /\ LET bound == LoopBound(access.kernel, access.n)
       IN  access' = [access EXCEPT !.phase = "prob", !.j = 0,
                                    !.cols = @ \cup 0..(bound - 1),
                                    !.slots = @ \cup 0..(bound - 1)]
    /\ UNCHANGED <<kvars, dvars, rvars, lvars, ivars, tvars, evars, svars, cvars>>

AccessNext == AccessZero \/ AccessRow \/ AccessSumdK

SpecAccess == AccessInit /\ [][AccessNext]_vars

\* C19: for each n in {4, 20, 61} every loop over states ranges over
\* 0..n-1, every index into sumcK and sumdK is within their declared bounds,
\* and no matrix element outside the site's own n x n block is read
C19_ReducesOverOwnBlock ==
    /\ access.phase # "idle" =>
          /\ access.slots \subseteq 0..(KernelStates - 1)
          /\ access.reads \subseteq 0..(access.n * access.n - 1)
    /\ access.phase = "done" =>
          /\ access.rows = 0..(access.n - 1)
          /\ access.cols = 0..(access.n - 1)

----------------------------------------------------------------------------
(* The counters of calculateRegression on large inputs.  Values that may   *)
(* pass 2^31 are kept as <<high, low>> with low < 2^16, so that the        *)
(* counter's mathematical value and its 32-bit value can both be told.     *)

\* rows of the outer loop taken in one step
Stride == 1024

Limb == 2 ^ 16

\* v + d for a non-negative d
WideAdd(v, d) ==
    LET low == v[2] + d
    IN  <<v[1] + low \div Limb, low % Limb>>

\* the value is at most INT_MAX
FitsInt(v) == v[1] < Limb \div 2

\* the 32-bit two's complement pattern of the value
Wrap32(v) == <<v[1] % Limb, v[2]>>

\* the 32-bit pattern is that of a negative int
IsNegative(v) == v[1] >= Limb \div 2

\* numBranchPairs of the runs: the size of the documented failure, the
\* largest N with N(N-1)/2 <= INT_MAX, and the next one
CountSizes == {50000, 65536, 65537}

\* the pairs (i, j), j > i, of rows first..last-1 when every pair survives
\* (x[i] = i, y[i] = i*i: all slopes are positive and differ from zero)
SurvivorsOfRows(N, first, last) ==
    LET len == last - first
    IN  (len * ((N - 1 - first) + (N - last))) \div 2

\* an int counter incremented d times (lines 167 and 182): the value it
\* holds, and whether an increment overflowed
CountUp(counter, d) ==
    LET sum == WideAdd(counter.value, d)
    IN  IF FitsInt(sum) THEN [value |-> sum, overflowed |-> counter.overflowed]
        ELSE [value |-> Wrap32(sum), overflowed |-> TRUE]

CountInit ==
    /\ KernelIdle
    /\ DevIdle
    /\ RegIdle
    /\ LaunchIdle
    /\ AddrIdle
    /\ TreeIdle
    /\ EnumIdle
    /\ SinkIdle
    /\ AccessIdle
    /\ \E N \in CountSizes :
          count = [pc |-> "pass1", numBranchPairs |-> N, i |-> 0,
                   counter |-> [value |-> <<0, 0>>, overflowed |-> FALSE],
                   index |-> [value |-> <<0, 0>>, overflowed |-> FALSE],
                   vector |-> "none"]

\* pass 1, lines 160-169: Stride rows of the outer loop.  A signed overflow
\* of counter is undefined: the counter wraps, or the program ends
CountPass1 ==
    /\ count.pc = "pass1"
    /\ LET N == count.numBranchPairs
           last == IF count.i + Stride < N THEN count.i + Stride ELSE N
           next == CountUp(count.counter, SurvivorsOfRows(N, count.i, last))
       IN  IF count.i >= N
           THEN count' = [count EXCEPT !.pc = "alloc"]
           ELSE \E trap \in BOOLEAN :
                   /\ trap => next.overflowed /\ ~count.counter.overflowed
                   /\ count' = IF trap THEN [count EXCEPT !.pc = "crashed", !.counter = next]
                               ELSE [count EXCEPT !.i = last, !.counter = next]
    /\ UNCHANGED <<kvars, dvars, rvars, lvars, ivars, tvars, evars, svars, avars>>

\* line 172: malloc((size_t)counter*sizeof(double)); a negative counter
\* converts to a size no allocation can satisfy
CountAlloc ==
    /\ count.pc = "alloc"
    /\ count' = [count EXCEPT !.pc = "pass2", !.i = 0,
                              !.vector = IF IsNegative(count.counter.value)
                                         THEN "NULL" ELSE "allocated"]
    /\ UNCHANGED <<kvars, dvars, rvars, lvars, ivars, tvars, evars, svars, avars>>

\* pass 2, lines 173-185: Stride rows of the outer loop, writing
\* vector[index] and incrementing index
CountPass2 ==
    /\ count.pc = "pass2"
    /\ LET N == count.numBranchPairs
           last == IF count.i + Stride < N THEN count.i + Stride ELSE N
           next == CountUp(count.index, SurvivorsOfRows(N, count.i, last))
       IN  count' =
              IF count.i >= N THEN [count EXCEPT !.pc = "sort"]
              ELSE IF count.vector = "NULL" \/ next.overflowed
              THEN [count EXCEPT !.pc = "crashed", !.index = next]
              ELSE [count EXCEPT !.i = last, !.index = next]
    /\ UNCHANGED <<kvars, dvars, rvars, lvars, ivars, tvars, evars, svars, avars>>

CountNext == CountPass1 \/ CountAlloc \/ CountPass2

SpecCount == CountInit /\ [][CountNext]_vars

\* C20: for numBranchPairs >= 50,000 the survivor counter and the fill index
\* of calculateRegression stay within the range of their type, with no
\* wrap-around, and the call gets past both passes
C20_CountersStayInRange ==
    (count.pc # "idle" /\ count.numBranchPairs >= 50000) =>
        /\ ~count.counter.overflowed
        /\ ~count.index.overflowed
        /\ count.pc # "crashed"

----------------------------------------------------------------------------
(* The element index offsets[node] + siteIdx*n*n of a node's matrix at a   *)
(* site.  Values that may pass 2^31 are kept as <<high, low>> with         *)
(* 0 <= low < 2^16; high is negative for a negative value.                 *)

\* the int x as <<high, low>>
ToWide(x) == <<x \div Limb, x % Limb>>

\* v * m for 0 <= m < 2^12
WideMul(v, m) ==
    LET low == v[2] * m
    IN  <<v[1] * m + low \div Limb, low % Limb>>

\* a + b
WideSum(a, b) ==
    LET low == a[2] + b[2]
    IN  <<a[1] + b[1] + low \div Limb, low % Limb>>

\* the value lies in INT_MIN..INT_MAX
InIntRange(v) == -(Limb \div 2) <= v[1] /\ v[1] < Limb \div 2

\* the value of the low 32 bits read as an int
AsInt(v) ==
    LET w == Wrap32(v)
    IN  IF IsNegative(w) THEN <<w[1] - Limb, w[2]>> ELSE w

\* const unsigned int *offsets (CUDA line 50, Metal lines 39 and 143, shader
\* line 57, gpu_convergence line 78): what an element holds of the offset off
OffsetsEntry(off) == Wrap32(off)

\* a * m in int: the values the multiplication can leave.  A signed
\* overflow is undefined; the build either keeps the low 32 bits or carries
\* the product in a wider register
IntMul(a, m) ==
    LET exact == WideMul(a, m)
    IN  IF InIntRange(exact) THEN {exact} ELSE {AsInt(exact), exact}

\* siteIdx * n * n of CUDA lines 68-69: (siteIdx * n) * n
CudaProduct(siteIdx, n) ==
    UNION {IntMul(sn, n) : sn \in IntMul(ToWide(siteIdx), n)}

\* n2 = n * n and siteIdx * n2 of Metal lines 56 and 73-74, of lines 159 and
\* 164-165 of convergence_kernel_shared and of shader lines 70 and 85-86
MetalProduct(siteIdx, n) ==
    UNION {IntMul(ToWide(siteIdx), n2[2]) : n2 \in IntMul(ToWide(n), n)}

\* conP_part1 + entry + product: the element the pointer designates.  The
\* unsigned entry and the int product are each added to a 64-bit pointer
ElementIndex(entry, product) == WideSum(entry, product)

\* the kernels that form the index
IndexKernels == {"cuda", "metal", "shared", "shader"}

\* offsets of a node: the first node, a node behind one matrix, the last
\* offset 32 bits hold, and two offsets of a tensor of more than 2^32 - 1
\* elements
NodeOffsets == {<<0, 0>>, <<0, 400>>, <<65535, 65535>>, <<65536, 0>>, <<65536, 400>>}

\* sites: the first two, the last with 400 * siteIdx <= INT_MAX, the next
\* one, and one past 2^32 / 400
SiteIndexes == {0, 1, 5368709, 5368710, 10737419}

AddrInit ==
    /\ KernelIdle
    /\ DevIdle
    /\ RegIdle
    /\ LaunchIdle
    /\ EnumIdle
    /\ SinkIdle
    /\ AccessIdle
    /\ CountIdle
    /\ TreeIdle
    /\ \E kernel \in IndexKernels, off \in NodeOffsets, siteIdx \in SiteIndexes,
          n \in KernelSizes :
          addr = [pc |-> "entry", kernel |-> kernel, off |-> off,
                  siteIdx |-> siteIdx, n |-> n, entry |-> <<0, 0>>,
                  product |-> <<0, 0>>, index |-> <<0, 0>>]

\* offsets[inode] is read
AddrEntry ==
    /\ addr.pc = "entry"
    /\ addr' = [addr EXCEPT !.pc = "product", !.entry = OffsetsEntry(addr.off)]
    /\ UNCHANGED <<kvars, dvars, rvars, lvars, evars, svars, avars, cvars, tvars>>

\* siteIdx * n * n is formed
AddrProduct ==
    /\ addr.pc = "product"
    /\ \E product \in IF addr.kernel = "cuda"
                      THEN CudaProduct(addr.siteIdx, addr.n)
                      ELSE MetalProduct(addr.siteIdx, addr.n) :
          addr' = [addr EXCEPT !.pc = "sum", !.product = product]
    /\ UNCHANGED <<kvars, dvars, rvars, lvars, evars, svars, avars, cvars, tvars>>

\* the pointer to the matrix is formed
AddrSum ==
    /\ addr.pc = "sum"
    /\ addr' = [addr EXCEPT !.pc = "done",
                            !.index = ElementIndex(addr.entry, addr.product)]
    /\ UNCHANGED <<kvars, dvars, rvars, lvars, evars, svars, avars, cvars, tvars>>

AddrNext == AddrEntry \/ AddrProduct \/ AddrSum

SpecAddr == AddrInit /\ [][AddrNext]_vars

\* the mathematical value of offsets[node] + siteIdx*n*n
MathIndex == WideSum(addr.off, WideMul(ToWide(addr.siteIdx), addr.n * addr.n))

\* C21: in every kernel the element index used to locate a node's matrix at
\* a site equals the mathematical value offsets[node] + siteIdx*n*n, for
\* every tensor, including one of more than 2^32 - 1 elements: the offsets
\* entry, the product and the sum are free of 32-bit wrap-around.
C21_IndexIsMathematical ==
    /\ addr.pc \in {"product", "sum", "done"} => addr.entry = addr.off
    /\ addr.pc \in {"sum", "done"} =>
          addr.product = WideMul(ToWide(addr.siteIdx), addr.n * addr.n)
    /\ addr.pc = "done" => addr.index = MathIndex

----------------------------------------------------------------------------
(* The tree and its JSON form: outputTreeInJson and build_tree.  A branch  *)
(* length is a number of thousandths; the JSON text is a sequence of       *)
(* tokens.                                                                 *)

ObjOpen == [t |-> "{", k |-> "", v |-> <<>>]
ObjClose == [t |-> "}", k |-> "", v |-> <<>>]
Key(name) == [t |-> "key", k |-> name, v |-> <<>>]

\* json_integer(i) as json_dumps writes it
JInteger(i) == [t |-> "int", k |-> "", v |-> <<i>>]

\* json_real(d) as json_dumps writes it: "%.17g", the integer part and the
\* decimals of d
JReal(d) == [t |-> "real", k |-> "", v |-> <<d \div 1000, d % 1000>>]

\* json_string(s) as json_dumps writes it
JString(s) == [t |-> "string", k |-> s, v |-> <<>>]

\* com.spname[]
spname == [i \in 0..(MaxNodes - 1) |-> "species" \o ToString(i)]

\* lines 38-48: the nodes after the loop that assigns nodeID and name, and
\* the root's branch
MarkNodes(nodes) ==
    [i \in DOMAIN nodes |->
        IF nodes[i].nson = 0
        THEN [nodes[i] EXCEPT !.nodeID = i, !.name = spname[i]]
        ELSE IF nodes[i].father = -1
        THEN [nodes[i] EXCEPT !.nodeID = i, !.name = "Root", !.branch = 0]
        ELSE [nodes[i] EXCEPT !.nodeID = i, !.name = "Internal"]]

\* build_tree that descends into the first son alone
RECURSIVE build_treeFirstSon(_, _)
build_treeFirstSon(nodes, tree_node) ==
    LET nd == nodes[tree_node]
    IN  IF nd.nson > 0
        THEN [length |-> nd.branch, name |-> nd.name, id |-> nd.nodeID,
              children |-> <<build_treeFirstSon(nodes, nd.sons[1])>>]
        ELSE [length |-> nd.branch, name |-> nd.name, id |-> nd.nodeID]

\* build_tree(tree_node, json_node), lines 18-33: the object json_node at
\* the return
RECURSIVE build_tree(_, _)
build_tree(nodes, tree_node) ==
    LET nd == nodes[tree_node]
    IN  IF nd.nson > 0
        THEN [length |-> nd.branch, name |-> nd.name, id |-> nd.nodeID,
              children |-> [i \in 1..nd.nson |-> build_tree(nodes, nd.sons[i])]]
        ELSE [length |-> nd.branch, name |-> nd.name, id |-> nd.nodeID]

\* json_dumps(json, JSON_COMPACT|JSON_SORT_KEYS), line 52: the members in
\* the order of their keys; an array's elements separated by commas
RECURSIVE json_dumps(_), DumpElements(_, _)
json_dumps(json) ==
    <<ObjOpen>>
    \o (IF "children" \in DOMAIN json
        THEN <<Key("children"), Open>> \o DumpElements(json.children, 1) \o <<Close, Comma>>
        ELSE <<>>)
    \o <<Key("id"), JInteger(json.id), Comma,
         Key("length"), JReal(json.length), Comma,
         Key("name"), JString(json.name), ObjClose>>

DumpElements(array, i) ==
    IF i > Len(array) THEN <<>>
    ELSE json_dumps(array[i])
         \o (IF i < Len(array) THEN <<Comma>> ELSE <<>>)
         \o DumpElements(array, i + 1)

\* outputTreeInJson, lines 36-57: the nodes and the text at its return
outputTreeInJson(nodes, root) ==
    LET marked == MarkNodes(nodes)
    IN  [nodes |-> marked, text |-> json_dumps(build_tree(marked, root))]

\* ---- the trees of the runs ----

\* the elements of a set of numbers in ascending order
RECURSIVE Ascend(_)
Ascend(S) ==
    IF S = {} THEN <<>>
    ELSE LET m == CHOOSE x \in S : \A y \in S : x <= y
         IN  <<m>> \o Ascend(S \ {m})

Reverse(s) == [i \in 1..Len(s) |-> s[Len(s) + 1 - i]]

\* branch lengths of node i, in thousandths
BranchChoices == {0, 125, 1005}

\* nodes[] for a father function: the sons in ascending or descending
\* order; nodeID and name as a first call finds them (fresh) or as an
\* earlier call left them
MkNodes(father, descending, fresh, step) ==
    [i \in DOMAIN father |->
        LET sons == IF descending THEN Reverse(Ascend(SonsOf(father, i)))
                    ELSE Ascend(SonsOf(father, i))
        IN  [father |-> father[i], nson |-> Len(sons), sons |-> sons,
             branch |-> step * (i + 1),
             name |-> IF fresh THEN ""
                      ELSE IF sons = <<>> THEN spname[i]
                      ELSE IF father[i] = -1 THEN "Root" ELSE "Internal",
             nodeID |-> IF fresh THEN 0 ELSE i]]

TreeInit ==
    /\ KernelIdle
    /\ DevIdle
    /\ RegIdle
    /\ LaunchIdle
    /\ EnumIdle
    /\ SinkIdle
    /\ AccessIdle
    /\ CountIdle
    /\ AddrIdle
    /\ \E father \in Trees, descending \in BOOLEAN, fresh \in BOOLEAN,
          step \in BranchChoices :
          LET nodes == MkNodes(father, descending, fresh, step)
          IN  tree = [pc |-> "start", nnode |-> Cardinality(DOMAIN father),
                      root |-> RootOf(father), nodes |-> nodes, before |-> nodes,
                      text |-> <<>>]

\* char *tree = outputTreeInJson() (line 260 of outputDataInJS)
OutputTree ==
    /\ tree.pc = "start"
    /\ LET out == outputTreeInJson(tree.nodes, tree.root)
       IN  tree' = [tree EXCEPT !.pc = "serialised", !.nodes = out.nodes,
                                !.text = out.text]
    /\ UNCHANGED <<kvars, dvars, rvars, lvars, evars, svars, avars, cvars, ivars>>

\* tree = makeupDataOutput(tree, "tree") (line 261) and the statement's
\* place in the data file
OutputTreeStatement ==
    /\ tree.pc = "serialised"
    /\ tree' = [tree EXCEPT !.pc = "written",
                            !.text = <<makeupDataOutput(tree.text, "tree")>>]
    /\ UNCHANGED <<kvars, dvars, rvars, lvars, evars, svars, avars, cvars, ivars>>

TreeNext == OutputTree \/ OutputTreeStatement

SpecTree == TreeInit /\ [][TreeNext]_vars

\* ---- the JSON text read back ----

\* the value of a number or string token
ScalarOf(tok) ==
    IF tok.t = "int" THEN tok.v[1]
    ELSE IF tok.t = "real" THEN tok.v[1] * 1000 + tok.v[2]
    ELSE tok.k

\* an object from its "{" at at, and an array's elements from at on: the
\* value and the position behind it
RECURSIVE ParseObject(_, _), ParseMembers(_, _, _), ParseElements(_, _, _)
ParseObject(toks, at) == ParseMembers(toks, at + 1, <<>>)

ParseMembers(toks, at, obj) ==
    LET key == toks[at].k
        val == IF toks[at + 1].t = "["
               THEN ParseElements(toks, at + 2, <<>>)
               ELSE [val |-> ScalarOf(toks[at + 1]), next |-> at + 2]
        grown == [x \in DOMAIN obj \cup {key} |-> IF x = key THEN val.val ELSE obj[x]]
    IN  IF toks[val.next].t = "," THEN ParseMembers(toks, val.next + 1, grown)
        ELSE [val |-> grown, next |-> val.next + 1]

ParseElements(toks, at, array) ==
    IF toks[at].t = "]" THEN [val |-> array, next |-> at + 1]
    ELSE IF toks[at].t = "," THEN ParseElements(toks, at + 1, array)
    ELSE LET el == ParseObject(toks, at)
         IN  ParseElements(toks, el.next, Append(array, el.val))

\* the nodes of a parsed tree, each with the id of the object it is nested
\* in and its place in that object's children
RECURSIVE NodesOf(_, _, _), NodesOfChildren(_, _, _)
NodesOf(obj, parent, place) ==
    <<[id |-> obj.id, parent |-> parent, place |-> place, name |-> obj.name,
       length |-> obj.length]>>
    \o (IF "children" \in DOMAIN obj
        THEN NodesOfChildren(obj.children, 1, obj.id) ELSE <<>>)

NodesOfChildren(array, i, parent) ==
    IF i > Len(array) THEN <<>>
    ELSE NodesOf(array[i], parent, i) \o NodesOfChildren(array, i + 1, parent)

\* the place of node i among its father's sons (0 for the root)
PlaceOf(nodes, i) ==
    IF nodes[i].father = -1 THEN 0
    ELSE CHOOSE q \in 1..nodes[nodes[i].father].nson : nodes[nodes[i].father].sons[q] = i

\* what a reader must recover for node i
NodeEntry(nodes, i) ==
    [id |-> nodes[i].nodeID,
     parent |-> IF nodes[i].father = -1 THEN -1 ELSE nodes[nodes[i].father].nodeID,
     place |-> PlaceOf(nodes, i), name |-> nodes[i].name, length |-> nodes[i].branch]

\* the text outputTreeInJson returned, parsed
ReadBack == NodesOf(ParseObject(tree.text, 1).val, -1, 0)

\* C22: the JSON text of outputTreeInJson parsed back reproduces the tree:
\* every node reachable from the root appears exactly once, nested in the
\* children of its father in son order, with its node id, name and branch
\* length.
C22_JsonRoundTrip ==
    tree.pc = "serialised" =>
        /\ Len(ReadBack) = tree.nnode
        /\ {ReadBack[q] : q \in 1..Len(ReadBack)}
              = {NodeEntry(tree.nodes, i) : i \in DOMAIN tree.nodes}

C22_Witness ==
    /\ tree.pc = "serialised"
    /\ tree.nnode = MaxNodes
    /\ \E i \in DOMAIN tree.nodes :
          /\ tree.nodes[i].father # -1
          /\ tree.nodes[i].nson > 1
          /\ tree.nodes[i].sons[1] > tree.nodes[i].sons[2]
          /\ tree.nodes[i].branch % 1000 # 0

\* C23: outputTreeInJson (and with it outputDataInJS) leaves the tree as it
\* found it: every node's id, father, sons, branch length and name are what
\* they were before the call.
C23_TreeHeldReadOnly ==
    tree.pc \in {"serialised", "written"} => tree.nodes = tree.before

----------------------------------------------------------------------------
(* The slope indexing and the cutoff of calculateRegression, checked under *)
(* SpecReg; its buffer on large inputs, checked under SpecCount.           *)

\* C24: every index at which the sorted slope vector is read for k lies in
\* [0, count); an input whose index would fall outside is reported as
\* NumericDegeneracy and the element is not read.
C24_SlopeReadsInRange ==
    RegPastSlope =>
        \/ \A q \in 1..Len(reg.reads) : 0 <= reg.reads[q] /\ reg.reads[q] < reg.counter
        \/ reg.error = "NumericDegeneracy" /\ reg.reads = <<>>

\* the index (from 0) of the greatest slope less than -1, or -1
LastBelowMinusOne(vector) ==
    LET below == {q \in 1..Len(vector) : Lt(vector[q], Num(-1))}
    IN  IF below = {} THEN -1
        ELSE (CHOOSE q \in below : \A r \in below : r <= q) - 1

\* C25: after the sort, cutoff is the index of the greatest slope strictly
\* less than -1, and -1 when no collected slope is less than -1; when every
\* collected slope is less than -1 it is count - 1.
C25_CutoffIsLastBelowMinusOne ==
    (RegPastSlope /\ Ascending(reg.vector)) =>
        reg.cutoff = LastBelowMinusOne(reg.vector)

\* C26: the slope buffer has exactly as many elements as pass 1 counted and
\* pass 2 writes exactly that many slopes, at the indexes 0..count-1: no
\* write falls outside the buffer and no element is left unwritten.
C26_BufferExactlyFilled ==
    /\ count.pc # "crashed"
    /\ count.pc \in {"pass2", "sort"} =>
          count.vector = "allocated" /\ ~count.counter.overflowed
    /\ count.pc = "sort" =>
          /\ ~count.index.overflowed
          /\ count.index.value = count.counter.value

----------------------------------------------------------------------------
(* The order of the dispatcher's calls and the caller's output arrays,     *)
(* checked under SpecDev.                                                  *)

\* C27: gpu_convergence stages data and launches the kernel only if a
\* gpu_init of the backend has returned 0 and gpu_cleanup has not been
\* called since; before init, after a failed init, after cleanup or with
\* GPU_BACKEND_NONE it returns -1, creates no device buffer and launches no
\* kernel.
C27_RunOnlyWhenInitialised ==
    (lastCall.fn = "run" /\ (~ready \/ Dispatch(backend) = "NONE")) =>
        /\ lastCall.ret = -1
        /\ lastCall.created = {}
        /\ ~lastCall.launched

\* C28: whenever gpu_convergence returns -1, neither h_pConvergent nor
\* h_pDivergent has been written, on every failure path of every backend.
C28_FailureLeavesOutputs ==
    (lastCall.fn = "run" /\ lastCall.ret = -1) => lastCall.host = {}

----------------------------------------------------------------------------
(* The two nodes of a pair exchanged, checked under SpecKernel.            *)

\* nodePairs[] with inode and jnode of every pair exchanged
SwapPairs(nodePairs) ==
    [q \in 1..Len(nodePairs) |->
        IF q % 3 = 1 THEN nodePairs[q + 1]
        ELSE IF q % 3 = 2 THEN nodePairs[q - 1]
        ELSE nodePairs[q]]

\* what the backend wrote for the work item
Written(b) == [probC |-> pConvergent[b], probD |-> pDivergent[b]]

\* C29: the kernel result does not depend on the order of the two nodes of
\* a pair: (probC, probD) computed with P1 = A, P2 = B equals (probC, probD)
\* computed with P1 = B, P2 = A, in exact arithmetic.
C29_PairOrderSymmetric ==
    /\ "cuda" \in kWritten =>
          Written("cuda") = CudaKernel(conP, kArgs.offsets, SwapPairs(kArgs.nodePairs),
                                       kArgs.pairIdx, kArgs.siteIdx, kn)
    /\ "metal" \in kWritten =>
          Written("metal") = MetalKernelSite(conP, kArgs.offsets,
                                             SwapPairs(kArgs.nodePairs),
                                             kArgs.pairIdx, kArgs.siteIdx, kn)

\* both kernels have run on two matrices that differ off the diagonal, in
\* their entries (0, 1) and (19, 1)
C29_Witness ==
    /\ {"cuda", "metal"} \subseteq kWritten
    /\ conP[1] > conP[kn * kn + 1]
    /\ conP[19 * kn + 1] < conP[kn * kn + 19 * kn + 1]
    /\ pDivergent["metal"] > 0
    /\ pConvergent["cuda"] > 0

----------------------------------------------------------------------------
(* The embedded shader source and convergence_kernel_shared, and the four  *)
(* kernels run on one work item of a launch with several pairs and sites.  *)

\* shader lines 97-101, the inner loop of row j from column k on
RECURSIVE ShaderSumRow(_, _, _, _, _, _)
ShaderSumRow(buf, base2, n, j, k, acc) ==
    IF k >= 20 THEN acc
    ELSE LET val == buf[base2 + j * n + k]
             nxt == [sumcK |-> [acc.sumcK EXCEPT ![k] = @ + val],
                     rowSum |-> acc.rowSum + val]
         IN  Strict(nxt, ShaderSumRow(buf, base2, n, j, k + 1, nxt))

\* shader lines 94-104, from row j on
RECURSIVE ShaderSumLoop(_, _, _, _, _)
ShaderSumLoop(buf, base2, n, j, acc) ==
    IF j >= 20 THEN acc
    ELSE LET diag == buf[base2 + j * n + j]
             row == ShaderSumRow(buf, base2, n, j, 0,
                                 [sumcK |-> acc.sumcK, rowSum |-> 0])
             nxt == [sumcK |-> [row.sumcK EXCEPT ![j] = @ - diag],
                     sumdforJ |-> acc.sumdforJ + (row.rowSum - diag)]
         IN  Strict(nxt, ShaderSumLoop(buf, base2, n, j + 1, nxt))

\* shader lines 113-117, the inner loop of row j from column k on; sumdK[k]
\* is sumdforJ - sumcK[k] (line 106)
RECURSIVE ShaderProbRow(_, _, _, _, _, _, _)
ShaderProbRow(buf, base1, n, j, k, sums, acc) ==
    IF k >= 20 THEN acc
    ELSE LET p1_val == buf[base1 + j * n + k]
             sumdK == [q \in 0..19 |-> sums.sumdforJ - sums.sumcK[q]]
             nxt == [probC |-> acc.probC + sums.sumcK[k] * p1_val,
                     probD |-> acc.probD + sumdK[k] * p1_val]
         IN  Strict(nxt, ShaderProbRow(buf, base1, n, j, k + 1, sums, nxt))

\* shader lines 111-120, from row j on
RECURSIVE ShaderProbLoop(_, _, _, _, _, _)
ShaderProbLoop(buf, base1, n, j, sums, acc) ==
    IF j >= 20 THEN acc
    ELSE LET diag_p1 == buf[base1 + j * n + j]
             row == ShaderProbRow(buf, base1, n, j, 0, sums, acc)
             nxt == [probC |-> row.probC - sums.sumcK[j] * diag_p1,
                     probD |-> row.probD
                               - (sums.sumdforJ - sums.sumcK[j]) * diag_p1]
         IN  Strict(nxt, ShaderProbLoop(buf, base1, n, j + 1, sums, nxt))

\* the kernel of shaderSource, lines 66-120 for one site of one thread
ShaderKernelSite(buf, offs, pairs, pairIdx, siteIdx, n) ==
    LET inode == pairs[pairIdx * 3 + 1]
        jnode == pairs[pairIdx * 3 + 2]
        n2 == n * n
        offset1 == offs[inode]
        offset2 == offs[jnode]
        sums == ShaderSumLoop(buf, offset2 + siteIdx * n2, n, 0,
                              [sumcK |-> ZeroSums, sumdforJ |-> 0])
    IN  Strict(sums,
               ShaderProbLoop(buf, offset1 + siteIdx * n2, n, 0, sums,
                              [probC |-> 0, probD |-> 0]))

\* convergence_kernel_shared lines 178-182, the inner loop of row j
RECURSIVE SharedSumRow(_, _, _, _, _, _)
SharedSumRow(buf, base2, n, j, k, acc) ==
    IF k >= 20 THEN acc
    ELSE LET val == buf[base2 + j * n + k]
             nxt == [sumcK |-> [acc.sumcK EXCEPT ![k] = @ + val],
                     sumdforJ |-> acc.sumdforJ + val]
         IN  Strict(nxt, SharedSumRow(buf, base2, n, j, k + 1, nxt))

\* convergence_kernel_shared lines 177-185, from row j on
RECURSIVE SharedSumLoop(_, _, _, _, _)
SharedSumLoop(buf, base2, n, j, acc) ==
    IF j >= 20 THEN acc
    ELSE LET row == SharedSumRow(buf, base2, n, j, 0, acc)
             nxt == [sumcK |-> [row.sumcK EXCEPT ![j] = @ - buf[base2 + j * n + j]],
                     sumdforJ |-> row.sumdforJ - buf[base2 + j * n + j]]
         IN  Strict(nxt, SharedSumLoop(buf, base2, n, j + 1, nxt))

\* convergence_kernel_shared lines 192-197, the inner loop of row j
RECURSIVE SharedProbRow(_, _, _, _, _, _, _)
SharedProbRow(buf, base1, n, j, k, sums, acc) ==
    IF k >= 20 THEN acc
    ELSE LET p1_val == buf[base1 + j * n + k]
             sumdK_k == sums.sumdforJ - sums.sumcK[k]
             nxt == [probC |-> acc.probC + sums.sumcK[k] * p1_val,
                     probD |-> acc.probD + sumdK_k * p1_val]
         IN  Strict(nxt, SharedProbRow(buf, base1, n, j, k + 1, sums, nxt))

\* lines 191-202 without the diagonal's subtraction
RECURSIVE SharedProbLoopKeepDiag(_, _, _, _, _, _)
SharedProbLoopKeepDiag(buf, base1, n, j, sums, acc) ==
    IF j >= 20 THEN acc
    ELSE LET row == SharedProbRow(buf, base1, n, j, 0, sums, acc)
         IN  Strict(row, SharedProbLoopKeepDiag(buf, base1, n, j + 1, sums, row))

\* convergence_kernel_shared lines 191-202, from row j on
RECURSIVE SharedProbLoop(_, _, _, _, _, _)
SharedProbLoop(buf, base1, n, j, sums, acc) ==
    IF j >= 20 THEN acc
    ELSE LET row == SharedProbRow(buf, base1, n, j, 0, sums, acc)
             p1_diag == buf[base1 + j * n + j]
             sumdK_j == sums.sumdforJ - sums.sumcK[j]
             nxt == [probC |-> row.probC - sums.sumcK[j] * p1_diag,
                     probD |-> row.probD - sumdK_j * p1_diag]
         IN  Strict(nxt, SharedProbLoop(buf, base1, n, j + 1, sums, nxt))

\* convergence_kernel_shared, lines 153-202 of one thread that passed the
\* guard
SharedKernel(buf, offs, pairs, pairIdx, siteIdx, n) ==
    LET inode == pairs[pairIdx * 3 + 1]
        jnode == pairs[pairIdx * 3 + 2]
        n2 == n * n
        sums == SharedSumLoop(buf, offs[jnode] + siteIdx * n2, n, 0,
                              [sumcK |-> ZeroSums, sumdforJ |-> 0])
    IN  Strict(sums,
               SharedProbLoop(buf, offs[inode] + siteIdx * n2, n, 0, sums,
                              [probC |-> 0, probD |-> 0]))

\* ---- the launches of the runs ----

\* numSites of a launch ranges over 1..MaxKernelSites
MaxKernelSites == 2

AllKernels == {"cuda", "metal", "shader", "shared"}

\* the matrices of the runs: the uniform one, and one spike at (0, 1) on a
\* zero base with a diagonal or on a unit base without
AgreeParams ==
    {Uniform} \cup {p \in MatrixParams : /\ p.r = 0 /\ p.c = 1 /\ p.v = 1
                                         /\ p.diag = 3 * (1 - p.base)}

\* conP_part1 of two nodes at numSites sites, node by node and site by
\* site; the spike of a node grows by one from a site to the next
MkConPSites(p0, p1, numSites, n) ==
    LET M == [v \in 0..1 |-> [t \in 0..(numSites - 1) |->
                 MkMatrix([(IF v = 0 THEN p0 ELSE p1) EXCEPT !.v = @ + t], n)]]
        n2 == n * n
    IN  [i \in 0..(2 * numSites * n2 - 1) |->
            M[i \div (numSites * n2)][(i % (numSites * n2)) \div n2][i % n2]]

\* offsets[] of the two nodes
SiteOffsets(numSites, n) == [v \in 0..1 |-> v * numSites * n * n]

\* nodePairs[] of numPairs pairs: (0, 1), then (1, 0)
PairList(numPairs) == SubSeq(<<0, 1, 0, 1, 0, 0>>, 1, 3 * numPairs)

AgreeInit ==
    /\ kn = KernelStates
    /\ \E p0 \in AgreeParams, p1 \in AgreeParams, numPairs \in 1..2,
          numSites \in 1..MaxKernelSites :
          \E pairIdx \in 0..(numPairs - 1), siteIdx \in 0..(numSites - 1) :
             /\ conP = MkConPSites(p0, p1, numSites, kn)
             /\ kArgs = KernelArgs(SiteOffsets(numSites, kn), PairList(numPairs),
                                   numPairs, numSites, pairIdx, siteIdx)
    /\ pConvergent = [b \in AllKernels |-> 0]
    /\ pDivergent = [b \in AllKernels |-> 0]
    /\ kOutIdx = [b \in AllKernels |-> -1]
    /\ kWritten = {}
    /\ DevIdle
    /\ RegIdle
    /\ LaunchIdle
    /\ HostIdle

\* the thread of the embedded shader processes the work item's site
RunShaderKernel ==
    /\ "shader" \notin kWritten
    /\ kWritten' = kWritten \cup {"shader"}
    /\ LET res == ShaderKernelSite(conP, kArgs.offsets, kArgs.nodePairs,
                                    kArgs.pairIdx, kArgs.siteIdx, kn)
           \* shader line 122
           at == outIdx(kArgs, kArgs.pairIdx, kArgs.siteIdx)
       IN  /\ pConvergent' = [pConvergent EXCEPT !["shader"] = res.probC]
           /\ pDivergent' = [pDivergent EXCEPT !["shader"] = res.probD]
           /\ kOutIdx' = [kOutIdx EXCEPT !["shader"] = at]
    /\ UNCHANGED <<conP, kn, kArgs>>
    /\ UNCHANGED <<dvars, rvars, lvars, hvars>>

\* the thread gid = (pairIdx, siteIdx) of convergence_kernel_shared
RunSharedKernel ==
    /\ "shared" \notin kWritten
    /\ kWritten' = kWritten \cup {"shared"}
    /\ LET res == SharedKernel(conP, kArgs.offsets, kArgs.nodePairs,
                                kArgs.pairIdx, kArgs.siteIdx, kn)
           \* line 204
           at == outIdx(kArgs, kArgs.pairIdx, kArgs.siteIdx)
       IN  /\ pConvergent' = [pConvergent EXCEPT !["shared"] = res.probC]
           /\ pDivergent' = [pDivergent EXCEPT !["shared"] = res.probD]
           /\ kOutIdx' = [kOutIdx EXCEPT !["shared"] = at]
    /\ UNCHANGED <<conP, kn, kArgs>>
    /\ UNCHANGED <<dvars, rvars, lvars, hvars>>

AgreeNext == RunCudaKernel \/ RunMetalKernel \/ RunShaderKernel \/ RunSharedKernel

SpecAgree == AgreeInit /\ [][AgreeNext]_vars

\* C30: for n = 20 and identical inputs the CUDA kernel, the Metal kernel,
\* the embedded shader and convergence_kernel_shared compute the same
\* (probC, probD) for the (pair, site) and write it at the same output
\* index pair*numSites + site.
C30_FourKernelsAgree ==
    kn = 20 =>
        \A a \in kWritten :
            /\ kOutIdx[a] = kArgs.pairIdx * kArgs.numSites + kArgs.siteIdx
            /\ \A b \in kWritten : Written(a) = Written(b)

\* the four kernels have run on the second pair at the second site, on
\* matrices that differ
C30_Witness ==
    /\ kn = 20
    /\ kWritten = AllKernels
    /\ kArgs.pairIdx = 1
    /\ kArgs.siteIdx = 1
    /\ conP[kArgs.offsets[0] + kn * kn] # conP[kArgs.offsets[1] + kn * kn]
    /\ pConvergent["shared"] > 0
    /\ pDivergent["shader"] > pConvergent["shader"]

====
